---- MODULE Spec2Model ----
(***************************************************************************)
(* Model of the simulation engine of iPSC-voltage-protocol:                *)
(* PaciModel.generate_response, its three protocol drivers, the state      *)
(* derivative function action_potential_diff_eq and the external stiff     *)
(* integrator (scipy.integrate.solve_ivp) that drives them, PaciModel's    *)
(* class attributes and instances, generate_trace, and the calls the       *)
(* ParameterTuningGeneticAlgorithm harness makes into the engine.          *)
(*                                                                         *)
(* Abstractions.  Time is counted in units of the integrator's max_step.   *)
(* Voltages are integers (millivolts).  The state vector y handed to the   *)
(* forcing function is abstracted to the parts the drivers and the         *)
(* recorder read: its voltage slot y[0], the 13+1 ionic currents its other *)
(* slots produce (one of a few current profiles), and whether its          *)
(* concentrations y[2], y[17] are positive (math.log raises ValueError     *)
(* otherwise).  A profile stands for the gates and concentrations of one   *)
(* of the two initial vectors; the gating formulas are tabulated at the    *)
(* voltages the model uses.                                                *)
(***************************************************************************)
EXTENDS Integers, Sequences, FiniteSets, TLC

VARIABLES
    pc,                     \* "idle" | "running" | "returned": position of generate_response
    protocol,               \* the protocol object of the current call
    limit,                  \* number of RHS evaluations the integrator may make
    t,                      \* self.t
    y_voltage,              \* self.y_voltage
    d_y_voltage,            \* self.d_y_voltage
    full_y,                 \* self.full_y
    current_response_info,  \* self.current_response_info
    pacing_info,            \* the IrregularPacingInfo of the run
    offset_times,           \* the offset generator: number of offsets drawn so far
    t_accepted,             \* integrator: time of the last accepted step
    sol,                    \* integrator: accepted samples <<time, voltage>>
    y_in,                   \* the y[0] the integrator passed to the last evaluation
    rhs_d_y,                \* d_y as action_potential_diff_eq returned it (last evaluation)
    out_d_y,                \* d_y as the forcing function returned it (last evaluation)
    stimulated,             \* should_stimulate(t) of the last evaluation
    failure,                \* how the integration failed, "none" if it did not
    result,                 \* what generate_response returned
    runs,                   \* number of generate_response calls made on the instance
    fed,                    \* the <<t, y>> arguments the integrator passed in this run
    returned_traces,        \* the Trace objects returned so far by the instance
    default_parameters,     \* self.default_parameters
    PaciModel,              \* the class object: its initial condition vectors
    self,                   \* which PaciModel instance the variables above belong to
    parked,                 \* the attributes and run state of the other instance
    ga,                     \* the ParameterTuningGeneticAlgorithm object and its position
    ga_run,                 \* ParameterTuningGeneticAlgorithm.run: its locals and position
    experiment              \* run_comparison_experiment: its locals and position

\* the variables of the simulation engine and of the harness object
engine_vars ==
    <<pc, protocol, limit, t, y_voltage, d_y_voltage, full_y,
      current_response_info, pacing_info, offset_times, t_accepted, sol, y_in,
      rhs_d_y, out_d_y, stimulated, failure, result, runs, fed, returned_traces,
      default_parameters, PaciModel, self, parked, ga>>

vars == <<pc, protocol, limit, t, y_voltage, d_y_voltage, full_y,
          current_response_info, pacing_info, offset_times, t_accepted, sol,
          y_in, rhs_d_y, out_d_y, stimulated, failure, result, runs, fed,
          returned_traces, default_parameters, PaciModel, self, parked, ga,
          ga_run, experiment>>

----------------------------------------------------------------------------
(* Bounds of the model *)

MaxEvals == 4       \* RHS evaluations per run, all protocols
MaxEvalsIP == 5     \* RHS evaluations per Irregular-Pacing run
MaxEvalsVC == 4     \* RHS evaluations per Voltage-Clamp run
MaxRuns == 2        \* generate_response calls on one instance
MaxEvalsRerun == 2  \* RHS evaluations per run of an instance that is run again
MaxEvalsTwo == 3    \* RHS evaluations per run when two instances run at once
MaxEvalsGA == 2     \* RHS evaluations per run made for the tuning harness
MaxEvalsHistory == 2 \* RHS evaluations per run when the histories are compared
MaxGenerations == 2 \* largest config.max_generations of a tuning run
MaxConfigs == 2     \* configs given to run_comparison_experiment
MaxIterations == 2  \* iterations given to run_comparison_experiment

(* Program constants, in model units *)

NumSlots == 23
cm_farad == 987109                  \* 9.87109e-11 F in units of 1e-16 F
STIM_AMPLITUDE_AMPS == 7500000      \* in units of 1e-16 A
AVG_AP_START_VOLTAGE == -70         \* baseline action-potential-start voltage (mV)
STIMULATION_DURATION == 2           \* width of the stimulation window
MaxStep == 1                        \* max_step of solve_ivp: the unit of time

Slots == 0 .. (NumSlots - 1)

\* lines 64-71, in units of 1e-6; slot i of the code is entry i + 1
y_initial ==
    << -74923, 93653, 38, 0, 83, 741144, 999984, 997742, 266114, 434907, 31433,
       745357, 76052, 99589, 24910, 841715, 5580, 8648211, 2254, 81151, 38707,
       26045, 78585 >>

\* lines 72-73
y_initial_zero ==
    << -70000, 320000, 200, 0, 0, 1000000, 1000000, 1000000, 0, 1000000, 0,
       750000, 750000, 0, 100000, 1000000, 0, 9200000, 0, 750000, 300000, 900000,
       100000 >>

(* Inputs of the integrator *)

Volts == {-80, 30}
Profiles == {1, 2}
\* a state with a non-positive concentration produces no currents: the RHS
\* raises before it computes any
YStates ==
    [v : Volts, prof : Profiles, conc_ok : {TRUE}]
        \cup [v : Volts, prof : {1}, conc_ok : {FALSE}]

----------------------------------------------------------------------------
(* Protocols *)

Min(a, b) == IF a < b THEN a ELSE b

RECURSIVE SumDurations(_, _)
SumDurations(steps, n) ==
    IF n = 0 THEN 0 ELSE SumDurations(steps, n - 1) + steps[n].duration

\* VoltageClampProtocol.voltage_change_endpoints: cumulative step durations
voltage_change_endpoints(p) ==
    [i \in 1 .. Len(p.steps) |-> SumDurations(p.steps, i)]

\* VoltageClampProtocol.get_voltage_at_time: the step whose cumulative-duration
\* interval (endpoint[i-1], endpoint[i]] contains the time; time 0 is in step 1
StepAt(p, tt) ==
    CHOOSE i \in 1 .. Len(p.steps) :
        /\ tt <= voltage_change_endpoints(p)[i]
        /\ \A j \in 1 .. (i - 1) : tt > voltage_change_endpoints(p)[j]

get_voltage_at_time(p, tt) == p.steps[StepAt(p, tt)].voltage

SingleActionPotentialProtocol(d) ==
    [kind |-> "SAP", duration |-> d, offsets |-> <<>>, steps |-> <<>>]

IrregularPacingProtocol(d, offs) ==
    [kind |-> "IP", duration |-> d, offsets |-> offs, steps |-> <<>>]

VoltageClampProtocol(st) ==
    [kind |-> "VC", duration |-> 0, offsets |-> <<>>, steps |-> st]

VoltageClampStep(d, v) == [duration |-> d, voltage |-> v]

\* the time span generate_response hands to solve_ivp
TEnd(p) ==
    IF p.kind = "VC" THEN voltage_change_endpoints(p)[Len(p.steps)]
    ELSE p.duration

ProtocolsIP == { IrregularPacingProtocol(2, <<2, 0>>) }

ProtocolsIPShort == { IrregularPacingProtocol(2, <<1>>) }

ProtocolsVC ==
    { VoltageClampProtocol(<<VoltageClampStep(2, -80), VoltageClampStep(2, 30)>>),
      VoltageClampProtocol(<<VoltageClampStep(1, 30), VoltageClampStep(2, -80)>>) }

ProtocolsAll ==
    { SingleActionPotentialProtocol(2),
      IrregularPacingProtocol(2, <<1>>),
      VoltageClampProtocol(<<VoltageClampStep(1, -80), VoltageClampStep(1, 30)>>) }

----------------------------------------------------------------------------
(* The state derivative function action_potential_diff_eq *)

CurrentNames ==
    << "i_k1", "i_to", "i_kr", "i_ks", "i_ca_l", "i_na_k", "i_na", "i_na_l",
       "i_na_ca", "i_p_ca", "i_f", "i_b_na", "i_b_ca" >>

\* lines 76-81: the maximal conductances, in tenths of the published value
DefaultConductance == 10

DefaultParameters ==
    [g_na |-> DefaultConductance, g_ca_l |-> DefaultConductance,
     g_f_s |-> DefaultConductance, g_ks_s |-> DefaultConductance,
     g_kr_s |-> DefaultConductance, g_k1_s |-> DefaultConductance,
     g_p_ca |-> DefaultConductance, g_b_na |-> DefaultConductance,
     g_b_ca |-> DefaultConductance, g_na_lmax |-> DefaultConductance]

\* dict.update
Update(d, u) ==
    [k \in DOMAIN d \cup DOMAIN u |-> IF k \in DOMAIN u THEN u[k] ELSE d[k]]

\* what the gates, potentials and concentrations of the state vector make of
\* each current per unit of conductance: a depolarising (1) and a
\* repolarising (2) profile
DrivingTerms(y) ==
    IF y.prof = 1
    THEN [i_k1 |-> 1, i_to |-> 1, i_kr |-> 1, i_ks |-> 1, i_ca_l |-> -2,
          i_na_k |-> 1, i_na |-> -5, i_na_l |-> -1, i_na_ca |-> -1, i_p_ca |-> 1,
          i_f |-> -1, i_b_na |-> -1, i_b_ca |-> -1, i_f_na |-> -1]
    ELSE [i_k1 |-> 3, i_to |-> 2, i_kr |-> 2, i_ks |-> 1, i_ca_l |-> -1,
          i_na_k |-> 1, i_na |-> -1, i_na_l |-> -1, i_na_ca |-> -1, i_p_ca |-> 1,
          i_f |-> -1, i_b_na |-> -1, i_b_ca |-> -1, i_f_na |-> -2]

\* the ionic currents with the conductances g: the keys the RHS reads are
\* those of lines 223, 271, 287-288, 298, 371, 386, 415, 491, 495, 497; the
\* conductances of i_to, i_na_k and i_na_ca are not parameters
CurrentsWith(g, y) ==
    LET b == DrivingTerms(y) IN
    [i_k1    |-> g["g_k1_s"] * b.i_k1,
     i_to    |-> DefaultConductance * b.i_to,
     i_kr    |-> g["g_kr_s"] * b.i_kr,
     i_ks    |-> g["g_ks_s"] * b.i_ks,
     i_ca_l  |-> g["g_ca_l"] * b.i_ca_l,
     i_na_k  |-> DefaultConductance * b.i_na_k,
     i_na    |-> g["g_na"] * b.i_na,
     i_na_l  |-> g["g_na_lmax"] * b.i_na_l,
     i_na_ca |-> DefaultConductance * b.i_na_ca,
     i_p_ca  |-> g["g_p_ca"] * b.i_p_ca,
     i_f     |-> g["g_f_s"] * b.i_f,
     i_b_na  |-> g["g_b_na"] * b.i_b_na,
     i_b_ca  |-> g["g_b_ca"] * b.i_b_ca,
     i_f_na  |-> g["g_f_s"] * b.i_f_na]

Currents(y) == CurrentsWith(default_parameters, y)

\* math.log raises ValueError on a non-positive argument (lines 206-218)
RhsRaises(y) == ~y.conc_ok

\* mutant: the funny-sodium component is counted in the voltage equation
VoltageDerivative_WithFunnySodium(c) ==
    -(c.i_k1 + c.i_to + c.i_kr + c.i_ks + c.i_ca_l + c.i_na_k + c.i_na + c.i_na_l
      + c.i_na_ca + c.i_p_ca + c.i_f + c.i_b_na + c.i_b_ca + c.i_f_na)

\* line 565: d_y[0]
VoltageDerivative(c) ==
    -(c.i_k1 + c.i_to + c.i_kr + c.i_ks + c.i_ca_l + c.i_na_k + c.i_na + c.i_na_l
      + c.i_na_ca + c.i_p_ca + c.i_f + c.i_b_na + c.i_b_ca)

\* mutant: the assignment d_y[3] = 0 of line 505 is missing
AssignedSlots_Without3 ==
    {11, 12, 13, 18, 19, 14, 4, 5, 6, 7, 15, 16, 10, 8, 9, 20, 21, 22, 17, 2, 1, 0}

\* the slots of d_y the function assigns, in the order of the assignments
AssignedSlots ==
    {11, 12, 13, 18, 19, 14, 4, 5, 6, 7, 15, 16, 10, 8, 9, 3, 20, 21, 22, 17, 2, 1, 0}

\* the 15 gating variables of the state vector: d, f1, f2, fCa, Xr1, Xr2, Xs,
\* h, j, m, Xf, q, r in slots 4-16, m_L and h_L in slots 18-19
GatingSlots == (4 .. 16) \cup {18, 19}

\* the gates and concentrations a profile stands for: those of y_initial (1)
\* and those of y_initial_zero (2), in units of 1e-6
StateBehind(y) == IF y.prof = 1 THEN y_initial ELSE y_initial_zero

\* the membrane voltages (mV) the formulas below are tabulated at
Voltages == << -80, -75, -70, 30 >>

AtVoltage(table, v) == table[CHOOSE k \in DOMAIN Voltages : Voltages[k] = v]

\* the steady-state formulas of the voltage-dependent gates, evaluated at
\* Voltages, in units of 1e-6 (h_inf 227, j_inf 239, m_inf 259, m_inf_l 274,
\* h_inf_l 281, xf_infinity 291, d_infinity 310, f1_inf 317, f2_inf 331,
\* q_inf 356, r_inf 362, xs_infinity 375, xr1_inf 395, xr2_infinity 401)
inf_of_voltage ==
    [i \in GatingSlots \ {7} |->
       CASE
            i = 11 -> << 894398, 790265, 639471, 129 >>
         [] i = 12 -> << 894398, 790265, 639471, 129 >>
         [] i = 13 -> << 74768, 99156, 131466, 999994 >>
         [] i = 18 -> << 860, 2221, 5722, 999999 >>
         [] i = 19 -> << 265750, 156563, 86926, 0 >>
         [] i = 14 -> << 605874, 361237, 172216, 0 >>
         [] i = 4  -> << 40, 82, 167, 996263 >>
         [] i = 5  -> << 1000000, 1000000, 1000000, 0 >>
         [] i = 6  -> << 999996, 999986, 999950, 330000 >>
         [] i = 15 -> << 888640, 844527, 787127, 1684 >>
         [] i = 16 -> << 4252, 5545, 7227, 601248 >>
         [] i = 10 -> << 22977, 31144, 42088, 957912 >>
         [] i = 8  -> << 6, 15, 43, 999968 >>
         [] i = 9  -> << 460085, 435364, 410960, 86274 >>]

\* the time-constant formulas, evaluated at Voltages, in microseconds (tau_h
\* 232-235, tau_j 256, tau_m 264, tau_m_l 278, tau_h_l 282, tau_xf 292, tau_d
\* 314, tau_f1 without const_f1 323-328, tau_f2 333-337, tau_q 357-359, tau_r
\* 363-365, tau_xs 378, tau_xr1 398, tau_xr2 404)
tau_of_voltage ==
    [i \in GatingSlots \ {7} |->
       CASE
            i = 11 -> << 24248, 43429, 62988, 2542 >>
         [] i = 12 -> << 912101, 1707455, 2587023, 2114 >>
         [] i = 13 -> << 3, 8, 20, 52 >>
         [] i = 18 -> << 3, 8, 20, 52 >>
         [] i = 19 -> << 200000, 200000, 200000, 200000 >>
         [] i = 14 -> << 1897148, 1895302, 1892267, 20875 >>
         [] i = 4  -> << 411, 438, 477, 271 >>
         [] i = 5  -> << 198814, 198052, 196812, 189552 >>
         [] i = 6  -> << 15894, 15826, 15719, 19336 >>
         [] i = 15 -> << 9910, 11802, 14619, 6363 >>
         [] i = 16 -> << 2800, 2838, 2907, 2813 >>
         [] i = 10 -> << 3218, 4880, 7400, 898760 >>
         [] i = 8  -> << 78132, 125542, 198685, 14551 >>
         [] i = 9  -> << 903, 1077, 1267, 2717 >>]

\* lines 340-343: f_ca_inf at the cytosolic calcium y[2] of the profile
f_ca_inf(y) == IF y.prof = 1 THEN 997759 ELSE 987671

\* line 349
tau_f_ca == 2000

\* lines 318-321, in thousandths: 1 + 1433 (y[2] - 50e-6) while f1 rises
const_f1(y) ==
    IF AtVoltage(inf_of_voltage[5], y.v) - StateBehind(y)[6] > 0
    THEN 1000 + (1433 * (StateBehind(y)[3] - 50)) \div 1000
    ELSE 1000

\* mutant: the calcium gate carries no switch
const_f_ca_AlwaysOne(y) == 1

\* lines 344-347: the switch of the calcium-dependent inactivation gate
const_f_ca(y) ==
    IF y.v > -60 /\ f_ca_inf(y) > StateBehind(y)[8] THEN 0 ELSE 1

SteadyState(i, y) ==
    IF i = 7 THEN f_ca_inf(y) ELSE AtVoltage(inf_of_voltage[i], y.v)

TimeConstant(i, y) ==
    CASE i = 7 -> tau_f_ca
      [] i = 5 -> (AtVoltage(tau_of_voltage[5], y.v) * const_f1(y)) \div 1000
      [] OTHER -> AtVoltage(tau_of_voltage[i], y.v)

\* (steady state - gate) / time constant, in thousandths per second
Relaxation(i, y) ==
    ((SteadyState(i, y) - StateBehind(y)[i + 1]) * 1000) \div TimeConstant(i, y)

\* the assignments d_y[i] of the gating slots: lines 237, 257, 265, 279, 283,
\* 293, 315, 329, 338, 350, 360, 366, 379, 399, 405
GateDerivative(i, y) ==
    IF i = 7 THEN const_f_ca(y) * Relaxation(7, y) ELSE Relaxation(i, y)

\* the value assigned to a slot: the voltage derivative in slot 0, the constant
\* 0 in slot 3, the sodium balance in slot 17, the relaxation of its gate in a
\* gating slot, an abstract rate in the calcium and ryanodine slots
SlotValue(i, y) ==
    LET c == Currents(y) IN
    CASE i = 0  -> VoltageDerivative(c)
      [] i = 3  -> 0
      [] i = 17 -> -(c.i_na + c.i_na_l + c.i_b_na + 3 * c.i_na_k + 3 * c.i_na_ca
                     + c.i_f_na)
      [] i \in GatingSlots -> GateDerivative(i, y)
      [] OTHER  -> y.prof

\* d_y = np.empty(23) followed by the assignments: a slot outside `assigned`
\* holds whatever the allocation left there
DerivativeVector(y) ==
    [assigned |-> AssignedSlots,
     val |-> [i \in Slots |-> IF i \in AssignedSlots THEN SlotValue(i, y) ELSE 0]]

NoVector == [assigned |-> {}, val |-> [i \in Slots |-> 0]]

\* lines 569-583: the CurrentSnapshot of one evaluation
current_timestep(y) ==
    [k \in 1 .. Len(CurrentNames) |->
        [name |-> CurrentNames[k], value |-> Currents(y)[CurrentNames[k]]]]

\* action_potential_diff_eq(t, y): what it leaves in the instance and returns.
\* The three appends of lines 198-200 happen before anything can raise; the
\* snapshot and d_y_voltage appends (584, 586) only when nothing raised.
action_potential_diff_eq(tt, y) ==
    [raised      |-> RhsRaises(y),
     t           |-> Append(t, tt),
     y_voltage   |-> Append(y_voltage, y.v),
     full_y      |-> Append(full_y, y),
     cri         |-> IF ~RhsRaises(y) /\ current_response_info.obj
                     THEN [current_response_info EXCEPT
                             !.currents = Append(@, current_timestep(y))]
                     ELSE current_response_info,
     d_y_voltage |-> IF RhsRaises(y) THEN d_y_voltage
                     ELSE Append(d_y_voltage, VoltageDerivative(Currents(y))),
     d_y         |-> IF RhsRaises(y) THEN NoVector ELSE DerivativeVector(y)]

----------------------------------------------------------------------------
(* trace.IrregularPacingInfo and the offset generator of the protocol *)

Last(s) == s[Len(s)]

IrregularPacingInfo ==
    [peaks |-> <<>>, apd_90s |-> <<>>, stimulations |-> <<>>,
     pending |-> FALSE, apd_90_end_voltage |-> 0]

\* a peak: the voltage derivative went from positive to non-positive and the
\* voltage exceeds the action-potential-start baseline
detect_peak(pi, th, y0, dh) ==
    /\ Len(dh) >= 2
    /\ dh[Len(dh) - 1] > 0
    /\ dh[Len(dh)] <= 0
    /\ y0 > AVG_AP_START_VOLTAGE

\* the voltage is below the pending 90%-repolarization target
detect_apd_90(pi, y0) == pi.pending /\ y0 < pi.apd_90_end_voltage

\* records the APD90 time; the target is no longer pending
add_apd_90(pi, tt) ==
    [pi EXCEPT !.apd_90s = Append(@, tt), !.pending = FALSE]

\* t is inside the window that starts at the most recently scheduled stimulation
should_stimulate(pi, tt) ==
    /\ Len(pi.stimulations) > 0
    /\ Last(pi.stimulations) <= tt
    /\ tt < Last(pi.stimulations) + STIMULATION_DURATION

\* next(offset_times) on a generator that has yielded n offsets
GeneratorExhausted(p, n) == n >= Len(p.offsets)
NextOffset(p, n) == p.offsets[n + 1]

----------------------------------------------------------------------------
(* The Irregular-Pacing and Voltage-Clamp forcing functions *)

\* lines 168-171
PeakStep(pi, tt, y0, th, dh) ==
    IF detect_peak(pi, th, y0, dh)
    THEN LET voltage_diff == IF AVG_AP_START_VOLTAGE - y0 < 0
                             THEN y0 - AVG_AP_START_VOLTAGE
                             ELSE AVG_AP_START_VOLTAGE - y0
         IN [pi EXCEPT !.peaks = Append(@, tt),
                       !.pending = TRUE,
                       !.apd_90_end_voltage = y0 - (voltage_diff * 9) \div 10]
    ELSE pi

\* mutant: the stimulation is scheduled at the APD90 time itself
ApdStep_NoOffset(p, pi, n, tt, y0) ==
    IF detect_apd_90(pi, y0)
    THEN IF GeneratorExhausted(p, n)
         THEN [pi |-> add_apd_90(pi, tt), n |-> n]
         ELSE [pi |-> [add_apd_90(pi, tt) EXCEPT !.stimulations = Append(@, tt)],
               n  |-> n + 1]
    ELSE [pi |-> pi, n |-> n]

\* mutant: an exhausted generator still schedules a stimulation
ApdStep_ScheduleWhenExhausted(p, pi, n, tt, y0) ==
    IF detect_apd_90(pi, y0)
    THEN IF GeneratorExhausted(p, n)
         THEN [pi |-> [add_apd_90(pi, tt) EXCEPT !.stimulations = Append(@, tt)],
               n  |-> n]
         ELSE [pi |-> [add_apd_90(pi, tt) EXCEPT
                         !.stimulations = Append(@, tt + NextOffset(p, n))],
               n  |-> n + 1]
    ELSE [pi |-> pi, n |-> n]

\* mutant: next(offset_times) is called before add_apd_90, so its
\* StopIteration skips the recording too
ApdStep_DrawBeforeRecording(p, pi, n, tt, y0) ==
    IF detect_apd_90(pi, y0)
    THEN IF GeneratorExhausted(p, n)
         THEN [pi |-> pi, n |-> n]
         ELSE [pi |-> [add_apd_90(pi, tt) EXCEPT
                         !.stimulations = Append(@, tt + NextOffset(p, n))],
               n  |-> n + 1]
    ELSE [pi |-> pi, n |-> n]

\* mutant: a new generator is made for every APD90, so the first offset is
\* drawn every time
ApdStep_RestartGenerator(p, pi, n, tt, y0) ==
    IF detect_apd_90(pi, y0)
    THEN IF GeneratorExhausted(p, n)
         THEN [pi |-> add_apd_90(pi, tt), n |-> n]
         ELSE [pi |-> [add_apd_90(pi, tt) EXCEPT
                         !.stimulations = Append(@, tt + NextOffset(p, 0))],
               n  |-> n + 1]
    ELSE [pi |-> pi, n |-> n]

\* lines 173-178: add_apd_90 comes first, so a StopIteration of next() leaves
\* the APD90 recorded and nothing scheduled
ApdStep(p, pi, n, tt, y0) ==
    IF detect_apd_90(pi, y0)
    THEN IF GeneratorExhausted(p, n)
         THEN [pi |-> add_apd_90(pi, tt), n |-> n]
         ELSE [pi |-> [add_apd_90(pi, tt) EXCEPT
                         !.stimulations = Append(@, tt + NextOffset(p, n))],
               n  |-> n + 1]
    ELSE [pi |-> pi, n |-> n]

\* lines 180-183
StimulationCurrent(pi, tt) ==
    IF should_stimulate(pi, tt) THEN STIM_AMPLITUDE_AMPS \div cm_farad ELSE 0

\* mutant: the stimulus is added to the wrong slot
AddStimulation_WrongSlot(d_y, i_stimulation) ==
    [d_y EXCEPT !.val[1] = @ + i_stimulation]

\* line 185
AddStimulation(d_y, i_stimulation) ==
    [d_y EXCEPT !.val[0] = @ + i_stimulation]

\* mutant: the stimulation decision is taken before APD90 detection schedules
PacingSteps_DecideBeforeScheduling(p, pi, n, tt, y0, th, dh) ==
    LET pi1 == PeakStep(pi, tt, y0, th, dh)
        a   == ApdStep(p, pi1, n, tt, y0)
    IN [pi |-> a.pi, n |-> a.n,
        i_stimulation |-> StimulationCurrent(pi1, tt),
        stim |-> should_stimulate(pi1, tt)]

\* lines 168-183, in the order of the code: peak detection on the histories
\* the RHS has just extended, then APD90 detection and scheduling on what peak
\* detection left, then the stimulation decision on what scheduling left
PacingSteps(p, pi, n, tt, y0, th, dh) ==
    LET pi1 == PeakStep(pi, tt, y0, th, dh)
        a   == ApdStep(p, pi1, n, tt, y0)
    IN [pi |-> a.pi, n |-> a.n,
        i_stimulation |-> StimulationCurrent(a.pi, tt),
        stim |-> should_stimulate(a.pi, tt)]

\* mutant: the recorded entry is a view of d_y[0], so the later += shows in it
HistoryAfterStimulation_View(dh, i_stimulation) ==
    IF Len(dh) = 0 THEN dh
    ELSE [dh EXCEPT ![Len(dh)] = @ + i_stimulation]

\* lines 586 and 185: d_y_voltage.append(d_y[0]) stores the scalar read from
\* the array, so the in-place d_y[0] += i_stimulation leaves the entry alone
HistoryAfterStimulation(dh, i_stimulation) == dh

\* mutant: the clamp writes a whole state, the voltage and the initial values
\* of the other slots
ClampedState_WholeState(p, tt, y) ==
    [y EXCEPT !.v = get_voltage_at_time(p, tt), !.prof = 1]

\* mutant: the voltage slot is left as the integrator passed it
ClampedState_NotWritten(p, tt, y) == y

\* line 193: y[0] = protocol.get_voltage_at_time(t), written into y itself
ClampedState(p, tt, y) == [y EXCEPT !.v = get_voltage_at_time(p, tt)]

----------------------------------------------------------------------------
(* generate_response *)

NoCurrentResponseInfo == [obj |-> FALSE, currents |-> <<>>]
CurrentResponseInfo == [obj |-> TRUE, currents |-> <<>>]

Pending == [kind |-> "pending", t |-> <<>>, y |-> <<>>,
            current_response_info |-> NoCurrentResponseInfo,
            pacing_info |-> IrregularPacingInfo]

ReturnNone == [Pending EXCEPT !.kind = "None"]

Raised == [Pending EXCEPT !.kind = "raised"]

\* lines 116-118, 134-135, 148-149: except ValueError
ExceptValueError == ReturnNone

\* lines 119-122, 136, 150-153: the statement after the try block
Trace(p, th, yh, cri, pi) ==
    [kind |-> "Trace", t |-> th, y |-> yh,
     current_response_info |-> IF p.kind = "IP" THEN NoCurrentResponseInfo ELSE cri,
     pacing_info |-> IF p.kind = "IP" THEN pi ELSE IrregularPacingInfo]

\* solve_ivp returned: its return value is not looked at
AfterSolveIvp(success, p, th, yh, cri, pi) == Trace(p, th, yh, cri, pi)

----------------------------------------------------------------------------
(* Class attributes of PaciModel: the initial condition vectors, of which    *)
(* the model keeps the voltage slot; their concentrations are positive       *)

NoProtocol == [kind |-> "none", duration |-> 0, offsets |-> <<>>, steps |-> <<>>]

ClassAttributes == [y_initial |-> y_initial, y_initial_zero |-> y_initial_zero]

\* a voltage slot in millivolts, rounded
Millivolts(x) == (x + 500) \div 1000

y_initial_voltage == Millivolts(y_initial[1])
y_initial_zero_voltage == Millivolts(y_initial_zero[1])

\* mutant: Voltage-Clamp is started from the zero-biased vector as well
InitialVector_ZeroForClamp(p) ==
    IF p.kind \in {"SAP", "VC"} THEN PaciModel.y_initial_zero
    ELSE PaciModel.y_initial

\* lines 113, 131, 146: the initial state generate_response passes to solve_ivp
InitialVector(p) ==
    IF p.kind = "SAP" THEN PaciModel.y_initial_zero ELSE PaciModel.y_initial

\* the abstract states that stand for the initial vector
InitialStates(p) ==
    { [v |-> Millivolts(InitialVector(p)[1]), prof |-> k,
       conc_ok |-> InitialVector(p)[3] > 0 /\ InitialVector(p)[18] > 0] :
         k \in Profiles }

\* mutant: the integrator works on the list it was given, so that the write
\* of the first evaluation lands in the class attribute
ClassAfterClamp_NoCopy(cls, first, v) ==
    IF first THEN [cls EXCEPT !.y_initial[1] = 1000 * v] ELSE cls

\* lines 146, 193: solve_ivp makes its own array of the list y_initial, and
\* y[0] = ... writes into the array the integrator passed
ClassAfterClamp(cls, first, v) == cls

\* the attributes and the run state of one instance
Instance ==
    [pc |-> pc, protocol |-> protocol, limit |-> limit, t |-> t,
     y_voltage |-> y_voltage, d_y_voltage |-> d_y_voltage, full_y |-> full_y,
     current_response_info |-> current_response_info,
     pacing_info |-> pacing_info, offset_times |-> offset_times,
     t_accepted |-> t_accepted, sol |-> sol, y_in |-> y_in, rhs_d_y |-> rhs_d_y,
     out_d_y |-> out_d_y, stimulated |-> stimulated, failure |-> failure,
     result |-> result, runs |-> runs, fed |-> fed,
     returned_traces |-> returned_traces,
     default_parameters |-> default_parameters]

\* lines 75-88: a new instance, which has not run
NewInstance ==
    [pc |-> "idle", protocol |-> NoProtocol, limit |-> 0, t |-> <<>>,
     y_voltage |-> <<>>, d_y_voltage |-> <<>>, full_y |-> <<>>,
     current_response_info |-> NoCurrentResponseInfo,
     pacing_info |-> IrregularPacingInfo, offset_times |-> 0,
     t_accepted |-> 0, sol |-> <<>>, y_in |-> 0, rhs_d_y |-> NoVector,
     out_d_y |-> NoVector, stimulated |-> FALSE, failure |-> "none",
     result |-> Pending, runs |-> 0, fed |-> <<>>,
     returned_traces |-> <<>>,
     default_parameters |-> DefaultParameters]

NoConfig ==
    [protocol |-> NoProtocol, secondary_protocol |-> NoProtocol,
     tunable_parameters |-> << >>]

\* the harness before its construction; secondary_protocol = NoProtocol
\* stands for None, has_secondary for hasattr(self, 'secondary_baseline_trace')
NoHarness ==
    [pc |-> "none", config |-> NoConfig,
     baseline_trace |-> Pending, max_error |-> 0,
     has_secondary |-> FALSE,
     secondary_baseline_trace |-> Pending, secondary_max_error |-> 0,
     new_parameters |-> << >>, primary_trace |-> Pending,
     secondary_trace |-> Pending, error |-> << >>, exception |-> "none"]

\* before ParameterTuningGeneticAlgorithm.run is called: no population, an
\* empty heap of parameter lists
NoRun ==
    [pc |-> "none", config |-> [population_size |-> 0, max_generations |-> 0],
     lists |-> << >>, population |-> << >>, offspring |-> << >>,
     generations |-> << >>, generation |-> 0, k |-> 0, touched |-> {},
     evaluated |-> << >>, exception |-> "none"]

\* before run_comparison_experiment is called
NoExperiment ==
    [pc |-> "none", configs |-> << >>, iterations |-> 0, config |-> 0, i |-> 0,
     protocol_title |-> "", results |-> << >>, ran |-> 0, exception |-> "none"]

Init ==
    /\ pc = "idle"
    /\ protocol = NoProtocol
    /\ limit = 0
    /\ t = <<>>
    /\ y_voltage = <<>>
    /\ d_y_voltage = <<>>
    /\ full_y = <<>>
    /\ current_response_info = NoCurrentResponseInfo
    /\ pacing_info = IrregularPacingInfo
    /\ offset_times = 0
    /\ t_accepted = 0
    /\ sol = <<>>
    /\ y_in = 0
    /\ rhs_d_y = NoVector
    /\ out_d_y = NoVector
    /\ stimulated = FALSE
    /\ failure = "none"
    /\ result = Pending
    /\ runs = 0
    /\ fed = <<>>
    /\ returned_traces = <<>>
    /\ default_parameters = DefaultParameters
    /\ PaciModel = ClassAttributes
    /\ self = 1
    /\ parked = NewInstance
    /\ ga = NoHarness
    /\ ga_run = NoRun
    /\ experiment = NoExperiment

\* the variables of the instance take the values of the record
Become(inst) ==
    /\ pc' = inst.pc
    /\ protocol' = inst.protocol
    /\ limit' = inst.limit
    /\ t' = inst.t
    /\ y_voltage' = inst.y_voltage
    /\ d_y_voltage' = inst.d_y_voltage
    /\ full_y' = inst.full_y
    /\ current_response_info' = inst.current_response_info
    /\ pacing_info' = inst.pacing_info
    /\ offset_times' = inst.offset_times
    /\ t_accepted' = inst.t_accepted
    /\ sol' = inst.sol
    /\ y_in' = inst.y_in
    /\ rhs_d_y' = inst.rhs_d_y
    /\ out_d_y' = inst.out_d_y
    /\ stimulated' = inst.stimulated
    /\ failure' = inst.failure
    /\ result' = inst.result
    /\ runs' = inst.runs
    /\ fed' = inst.fed
    /\ returned_traces' = inst.returned_traces
    /\ default_parameters' = inst.default_parameters

\* mutant: the histories of the earlier run are kept
ResetHistory_Keep(h) == h

\* lines 101-104: the attribute is bound to a new empty list
ResetHistory(h) == <<>>

\* a Trace the instance has returned: the run that made it, its contents at
\* return and now, and whether its current_response_info is the object
\* self.current_response_info still refers to
ReturnedTrace(p, inputs, how, tr) ==
    [protocol |-> p, fed |-> inputs, how |-> how, at_return |-> tr, now |-> tr,
     shares |-> tr.current_response_info.obj]

\* lines 107, 139: self.current_response_info is bound to a new object; the
\* Traces returned earlier keep the old one
NewRecorder(rts) == [k \in DOMAIN rts |-> [rts[k] EXCEPT !.shares = FALSE]]

\* line 584: the append is made to the object self.current_response_info
\* refers to, and is seen through every reference to it
RecorderAppended(rts, cri) ==
    [k \in DOMAIN rts |->
        IF rts[k].shares THEN [rts[k] EXCEPT !.now.current_response_info = cri]
        ELSE rts[k]]

\* mutant: an object of no protocol class is integrated as well
Recognized_Any(p) == TRUE

Recognized(p) == p.kind \in {"SAP", "IP", "VC"}

\* mutant: a recorder is made only when the instance has none yet
RecorderAtCall_OnlyOnce(p, cri) ==
    IF p.kind \in {"SAP", "VC"} /\ ~cri.obj THEN CurrentResponseInfo ELSE cri

\* lines 107, 139: the Single-Action-Potential and the Voltage-Clamp branch
\* bind self.current_response_info to a new recorder, the Irregular-Pacing
\* branch leaves the attribute as it is
RecorderAtCall(p, cri) ==
    IF p.kind \in {"SAP", "VC"} THEN CurrentResponseInfo ELSE cri

\* generate_response up to the call of solve_ivp: lines 100-107, 124-133,
\* 138-147; with a protocol of no recognized class, the whole function
generate_response(p, evals) ==
    /\ pc \in {"idle", "returned"}
    /\ runs' = runs + 1
    /\ protocol' = p
    /\ limit' = evals
    /\ t' = ResetHistory(t)
    /\ y_voltage' = ResetHistory(y_voltage)
    /\ d_y_voltage' = ResetHistory(d_y_voltage)
    /\ full_y' = ResetHistory(full_y)
    /\ current_response_info' = RecorderAtCall(p, current_response_info)
    /\ returned_traces' =
          IF p.kind \in {"SAP", "VC"} THEN NewRecorder(returned_traces)
          ELSE returned_traces
    /\ pacing_info' = IrregularPacingInfo
    /\ offset_times' = 0
    /\ t_accepted' = 0
    /\ sol' = <<>>
    /\ fed' = <<>>
    /\ y_in' = 0
    /\ rhs_d_y' = NoVector
    /\ out_d_y' = NoVector
    /\ stimulated' = FALSE
    /\ failure' = "none"
    /\ UNCHANGED <<PaciModel, self, parked>>
    /\ IF Recognized(p)
       THEN pc' = "running" /\ result' = Pending
       ELSE pc' = "returned" /\ result' = ReturnNone

\* lines 607-610: new_params, keyed by the names of the tunable parameters
NewParams(tunable_parameters, params) ==
    IF Len(params) > 0 /\ Len(tunable_parameters) > 0
    THEN [nm \in {tunable_parameters[i] : i \in 1 .. Len(params)} |->
            params[CHOOSE i \in 1 .. Len(params) :
                      /\ tunable_parameters[i] = nm
                      /\ \A j \in (i + 1) .. Len(params) : tunable_parameters[j] # nm]]
    ELSE << >>

\* lines 75-83: PaciModel(updated_parameters)
UpdatedDefaults(updated_parameters) ==
    IF DOMAIN updated_parameters # {}
    THEN Update(DefaultParameters, updated_parameters)
    ELSE DefaultParameters

\* lines 590-613: a new instance with the given parameters, run once
generate_trace(p, tunable_parameters, params, evals) ==
    /\ runs = 0
    /\ default_parameters' = UpdatedDefaults(NewParams(tunable_parameters, params))
    /\ generate_response(p, evals)
    /\ UNCHANGED <<ga_run, experiment>>

\* the times and states the integrator may evaluate the forcing function at:
\* first (t0, y0), afterwards any state at the accepted time or within one
\* max_step of it
CanEvaluate(tt, y) ==
    /\ pc = "running"
    /\ Len(t) < limit
    /\ t_accepted < TEnd(protocol)
    /\ IF Len(t) = 0
       THEN tt = 0 /\ y \in InitialStates(protocol)
       ELSE /\ y \in YStates
            /\ tt >= t_accepted
            /\ tt <= Min(t_accepted + MaxStep, TEnd(protocol))

\* one evaluation of a forcing function: r is what action_potential_diff_eq
\* did, out the derivative the forcing function returns, pi and n the pacing
\* state it leaves.  A ValueError of the RHS passes through solve_ivp into the
\* except clause of generate_response.
Evaluated(y0, r, out, pi, n, stim) ==
    /\ t' = r.t
    /\ y_voltage' = r.y_voltage
    /\ full_y' = r.full_y
    /\ current_response_info' = r.cri
    /\ d_y_voltage' = r.d_y_voltage
    /\ y_in' = y0
    /\ returned_traces' = RecorderAppended(returned_traces, r.cri)
    /\ IF r.raised
       THEN /\ pc' = "returned"
            /\ result' = ExceptValueError
            /\ failure' = "rhs_raised"
            /\ rhs_d_y' = NoVector
            /\ out_d_y' = NoVector
            /\ stimulated' = FALSE
            /\ UNCHANGED <<pacing_info, offset_times, sol>>
       ELSE /\ rhs_d_y' = r.d_y
            /\ out_d_y' = out
            /\ pacing_info' = pi
            /\ offset_times' = n
            /\ stimulated' = stim
            /\ sol' = IF Len(t) = 0 THEN <<1>> ELSE sol
            /\ UNCHANGED <<pc, result, failure>>
    /\ UNCHANGED <<protocol, limit, t_accepted, runs, default_parameters, self,
                   parked, ga, ga_run, experiment>>

\* lines 157-158
single_action_potential(tt, y) ==
    /\ protocol.kind = "SAP"
    /\ CanEvaluate(tt, y)
    /\ fed' = Append(fed, <<tt, y>>)
    /\ UNCHANGED PaciModel
    /\ LET r == action_potential_diff_eq(tt, y)
       IN Evaluated(y.v, r, r.d_y, pacing_info, offset_times, FALSE)

\* lines 165-186
irregular_pacing(tt, y) ==
    /\ protocol.kind = "IP"
    /\ CanEvaluate(tt, y)
    /\ fed' = Append(fed, <<tt, y>>)
    /\ UNCHANGED PaciModel
    /\ LET r    == action_potential_diff_eq(tt, y)
           a    == PacingSteps(protocol, pacing_info, offset_times, tt, y.v,
                               r.t, r.d_y_voltage)
           rec  == IF r.raised THEN r
                   ELSE [r EXCEPT !.d_y_voltage =
                                    HistoryAfterStimulation(@, a.i_stimulation)]
       IN Evaluated(y.v, rec, AddStimulation(r.d_y, a.i_stimulation), a.pi, a.n,
                    a.stim)

\* lines 192-194
voltage_clamp(tt, y) ==
    /\ protocol.kind = "VC"
    /\ CanEvaluate(tt, y)
    /\ fed' = Append(fed, <<tt, y>>)
    /\ PaciModel' = ClassAfterClamp(PaciModel, Len(t) = 0,
                                    get_voltage_at_time(protocol, tt))
    /\ LET r == action_potential_diff_eq(tt, ClampedState(protocol, tt, y))
       IN Evaluated(y.v, r, r.d_y, pacing_info, offset_times, FALSE)

----------------------------------------------------------------------------
(* parameter_tuning_genetic_algorithm.ParameterTuningGeneticAlgorithm *)

RECURSIVE SumSquares(_, _)
SumSquares(ys, n) == IF n = 0 THEN 0 ELSE SumSquares(ys, n - 1) + ys[n] * ys[n]

\* lines 264-273: baseline_trace.y of None raises AttributeError
determine_max_error_from_baseline_trace(baseline_trace) ==
    IF baseline_trace.kind = "None"
    THEN [raised |-> "AttributeError", value |-> 0]
    ELSE [raised |-> "none",
          value |-> SumSquares(baseline_trace.y, Len(baseline_trace.y))]

\* lines 222-235: the error of a trace against a baseline, as a term
evaluate_performance_based_on_protocol(p, which) ==
    IF p.kind \in {"SAP", "IP"}
    THEN [raised |-> "none", value |-> <<which, "voltage error">>]
    ELSE IF p.kind = "VC"
         THEN [raised |-> "none", value |-> <<which, "current error">>]
         ELSE [raised |-> "ValueError: Protocol not recognized.", value |-> << >>]

\* lines 127-133, 141-147: `if not trace` gives the penalty, the maximal
\* error of that protocol; otherwise the error over the maximal error
ErrorTerm(p, which, tr) ==
    IF tr.kind = "None"
    THEN [raised |-> "none", value |-> <<which, "max_error">>]
    ELSE evaluate_performance_based_on_protocol(p, which)

\* generate_trace returned to the harness; its PaciModel is dropped
TraceReceived(position) ==
    /\ ga.pc = position
    /\ pc = "returned"
    /\ Become(NewInstance)
    /\ UNCHANGED <<PaciModel, self, parked, ga_run, experiment>>

\* lines 37-41
ParameterTuningGeneticAlgorithm(config) ==
    /\ ga.pc = "none"
    /\ ga' = [ga EXCEPT !.pc = "baseline", !.config = config]
    /\ generate_trace(config.protocol, config.tunable_parameters, << >>,
                      MaxEvalsGA)

\* lines 39-45
StoreBaseline ==
    /\ TraceReceived("baseline")
    /\ LET m == determine_max_error_from_baseline_trace(result)
       IN ga' = IF m.raised # "none"
                THEN [ga EXCEPT !.pc = "raised", !.exception = m.raised,
                                !.baseline_trace = result]
                ELSE [ga EXCEPT !.baseline_trace = result,
                                !.max_error = m.value,
                                !.pc = IF ga.config.secondary_protocol # NoProtocol
                                       THEN "call secondary baseline"
                                       ELSE "constructed"]

\* lines 46-48
CallSecondaryBaseline ==
    /\ ga.pc = "call secondary baseline"
    /\ ga' = [ga EXCEPT !.pc = "secondary baseline"]
    /\ generate_trace(ga.config.secondary_protocol, ga.config.tunable_parameters,
                      << >>, MaxEvalsGA)

\* lines 46-50
StoreSecondaryBaseline ==
    /\ TraceReceived("secondary baseline")
    /\ LET m == determine_max_error_from_baseline_trace(result)
       IN ga' = IF m.raised # "none"
                THEN [ga EXCEPT !.pc = "raised", !.exception = m.raised,
                                !.has_secondary = TRUE,
                                !.secondary_baseline_trace = result]
                ELSE [ga EXCEPT !.has_secondary = TRUE,
                                !.secondary_baseline_trace = result,
                                !.secondary_max_error = m.value,
                                !.pc = "constructed"]

\* lines 112-125
evaluate_performance(new_parameters) ==
    /\ ga.pc = "constructed"
    /\ ga' = [ga EXCEPT !.pc = "primary", !.new_parameters = new_parameters,
                        !.primary_trace = Pending, !.secondary_trace = Pending,
                        !.error = << >>]
    /\ generate_trace(ga.config.protocol, ga.config.tunable_parameters,
                      new_parameters, MaxEvalsGA)

\* lines 122-135
StorePrimary ==
    /\ TraceReceived("primary")
    /\ LET e == ErrorTerm(ga.config.protocol, "primary", result)
       IN ga' = IF e.raised # "none"
                THEN [ga EXCEPT !.pc = "raised", !.exception = e.raised,
                                !.primary_trace = result]
                ELSE [ga EXCEPT !.error = <<e.value>>,
                                !.primary_trace = result,
                                !.pc = IF ga.has_secondary THEN "call secondary"
                                       ELSE "evaluated"]

\* lines 135-139
CallSecondary ==
    /\ ga.pc = "call secondary"
    /\ ga' = [ga EXCEPT !.pc = "secondary"]
    /\ generate_trace(ga.config.secondary_protocol, ga.config.tunable_parameters,
                      ga.new_parameters, MaxEvalsGA)

\* lines 136-148
StoreSecondary ==
    /\ TraceReceived("secondary")
    /\ LET e == ErrorTerm(ga.config.secondary_protocol, "secondary", result)
       IN ga' = IF e.raised # "none"
                THEN [ga EXCEPT !.pc = "raised", !.exception = e.raised,
                                !.secondary_trace = result]
                ELSE [ga EXCEPT !.error = Append(@, e.value),
                                !.secondary_trace = result, !.pc = "evaluated"]

----------------------------------------------------------------------------
(* The external integrator scipy.integrate.solve_ivp *)

\* the integrator accepts the step to the time it evaluated last
SolverAccept ==
    /\ pc = "running"
    /\ Len(t) > 0
    /\ Last(t) > t_accepted
    /\ t_accepted' = Last(t)
    /\ sol' = Append(sol, Len(t))
    /\ UNCHANGED <<pc, protocol, limit, t, y_voltage, d_y_voltage, full_y,
                   current_response_info, pacing_info, offset_times, y_in,
                   rhs_d_y, out_d_y, stimulated, failure, result, runs, fed,
                   returned_traces, default_parameters, PaciModel, self,
                   parked, ga, ga_run, experiment>>

Returns(res, how) ==
    /\ pc = "running"
    /\ Len(t) > 0
    /\ pc' = "returned"
    /\ result' = res
    /\ failure' = how
    /\ returned_traces' =
          IF res.kind = "Trace"
          THEN Append(returned_traces, ReturnedTrace(protocol, fed, how, res))
          ELSE returned_traces
    /\ UNCHANGED <<protocol, limit, t, y_voltage, d_y_voltage, full_y,
                   current_response_info, pacing_info, offset_times,
                   t_accepted, sol, y_in, rhs_d_y, out_d_y, stimulated, runs,
                   fed, default_parameters, PaciModel, self, parked, ga,
                   ga_run, experiment>>

\* the integrator raises ValueError (an array with infs or NaNs)
SolverRaises ==
    /\ t_accepted < TEnd(protocol)
    /\ Returns(ExceptValueError, "solver_raised")

\* the integrator gives up and returns an unsuccessful result (status -1)
SolverReturnsFailure ==
    /\ t_accepted < TEnd(protocol)
    /\ Returns(AfterSolveIvp(FALSE, protocol, t, y_voltage,
                             current_response_info, pacing_info),
               "solver_status")

\* the integrator reached the end of the time span
SolverReturnsSuccess ==
    /\ t_accepted = TEnd(protocol)
    /\ Returns(AfterSolveIvp(TRUE, protocol, t, y_voltage,
                             current_response_info, pacing_info),
               "none")

----------------------------------------------------------------------------
(* ParameterTuningGeneticAlgorithm.run.  A parameter list is an object of    *)
(* the heap ga_run.lists, named by its index; an individual holds the name   *)
(* of its list (individual[0]) and its fitness values, a stored              *)
(* ParameterTuningIndividual the name of the list it was given and a         *)
(* fitness.                                                                  *)

NumTunable == 1                  \* len(config.tunable_parameters)
ParamValues == {1, 2}            \* the values a random draw may give
ParamLists == [1 .. NumTunable -> ParamValues]
PopulationSizes == {0, 1, 2}

RunConfigs ==
    [population_size : PopulationSizes, max_generations : 0 .. MaxGenerations]

\* lines 112-148: the error of a parameter list, a function of its values alone
\* (every call makes its own PaciModel); kept as a term
toolbox_evaluate(parameters) == <<"error", parameters>>

\* lines 60-61, 93-97: individual.fitness.values = [toolbox.evaluate(...)]
WithFitness(lists, individual) ==
    [individual EXCEPT !.fitness = <<toolbox_evaluate(lists[individual.params])>>]

\* lines 64-70, 102-108: the stored individuals of a population; `parameters`
\* is the list population[i][0] itself, not a copy
StoredPopulation(population) ==
    [i \in 1 .. Len(population) |->
        [parameters |-> population[i].params,
         fitness |-> population[i].fitness[1]]]

\* mutant: the clone shares the parameter list of the individual it was made of
toolbox_clone_Shallow(individual, fresh) == individual

\* line 77: toolbox.clone is copy.deepcopy, the clone has a parameter list of
\* its own (at the fresh name) and a copy of the fitness
toolbox_clone(individual, fresh) == [individual EXCEPT !.params = fresh]

\* lines 161-163: the genes in `swapped` change places, in place
mate(lists, one, two, swapped) ==
    [lists EXCEPT
       ![one] = [g \in 1 .. NumTunable |->
                   IF g \in swapped THEN lists[two][g] ELSE lists[one][g]],
       ![two] = [g \in 1 .. NumTunable |->
                   IF g \in swapped THEN lists[one][g] ELSE lists[two][g]]]

\* lines 81, 86: del individual.fitness.values
WithoutFitness(individual) == [individual EXCEPT !.fitness = << >>]

\* line 72: the test of `for generation in range(1, max_generations)`
NextGeneration(r, generation) ==
    [r EXCEPT !.generation = generation,
              !.pc = IF generation < r.config.max_generations
                     THEN "select" ELSE "returned"]

\* lines 52-72: the initial population is drawn, evaluated and stored
run(config) ==
    /\ ga_run.pc = "none"
    /\ \E drawn \in [1 .. config.population_size -> ParamLists] :
          LET population ==
                [i \in 1 .. config.population_size |->
                    WithFitness(drawn, [params |-> i, fitness |-> << >>])]
          IN ga_run' = NextGeneration(
                 [ga_run EXCEPT !.config = config,
                                !.lists = drawn,
                                !.population = population,
                                !.evaluated = [i \in 1 .. Len(population) |-> i],
                                !.generations = <<StoredPopulation(population)>>],
                 1)
    /\ UNCHANGED <<engine_vars, experiment>>

\* lines 76-77: tournament selection may pick any individual for any place;
\* the picked ones are cloned
Select ==
    /\ ga_run.pc = "select"
    /\ LET n == Len(ga_run.population)
           first == Len(ga_run.lists)
       IN \E selected \in [1 .. n -> 1 .. n] :
            ga_run' =
              [ga_run EXCEPT
                 !.pc = "mate",
                 !.k = 1,
                 !.touched = {},
                 !.evaluated = << >>,
                 !.lists = @ \o [i \in 1 .. n |->
                                   @[ga_run.population[selected[i]].params]],
                 !.offspring =
                    [i \in 1 .. n |->
                        toolbox_clone(ga_run.population[selected[i]], first + i)]]
    /\ UNCHANGED <<engine_vars, experiment>>

\* lines 79-83: the pair (offspring[2k-2], offspring[2k-1]) of the zip is
\* mated or not; after the last pair the mutation loop starts
Mate ==
    /\ ga_run.pc = "mate"
    /\ LET k == ga_run.k
           one == ga_run.offspring[2 * k - 1]
           two == ga_run.offspring[2 * k]
       IN IF 2 * k > Len(ga_run.offspring)
          THEN ga_run' = [ga_run EXCEPT !.pc = "mutate", !.k = 1]
          ELSE \/ ga_run' = [ga_run EXCEPT !.k = k + 1]
               \/ \E swapped \in SUBSET (1 .. NumTunable) :
                    ga_run' =
                      [ga_run EXCEPT
                         !.k = k + 1,
                         !.lists = mate(@, one.params, two.params, swapped),
                         !.touched = @ \cup {2 * k - 1, 2 * k},
                         !.offspring[2 * k - 1] = WithoutFitness(one),
                         !.offspring[2 * k] = WithoutFitness(two)]
    /\ UNCHANGED <<engine_vars, experiment>>

\* lines 85-88, 175-177: offspring k is mutated or not; every gene of a
\* mutated one is kept or drawn anew, in place
Mutate ==
    /\ ga_run.pc = "mutate"
    /\ LET k == ga_run.k
           i == ga_run.offspring[k]
       IN IF k > Len(ga_run.offspring)
          THEN ga_run' = [ga_run EXCEPT !.pc = "evaluate"]
          ELSE \/ ga_run' = [ga_run EXCEPT !.k = k + 1]
               \/ \E mutated \in ParamLists :
                    ga_run' =
                      [ga_run EXCEPT
                         !.k = k + 1,
                         !.lists[i.params] = mutated,
                         !.touched = @ \cup {k},
                         !.offspring[k] = WithoutFitness(i)]
    /\ UNCHANGED <<engine_vars, experiment>>

\* line 92: the places of the individuals without fitness values, in order
RECURSIVE updated_individuals(_, _)
updated_individuals(offspring, n) ==
    IF n = 0 THEN << >>
    ELSE IF offspring[n].fitness = << >>
         THEN Append(updated_individuals(offspring, n - 1), n)
         ELSE updated_individuals(offspring, n - 1)

\* lines 92-99: the individuals without fitness values are evaluated, and the
\* offspring become the population
Reevaluate ==
    /\ ga_run.pc = "evaluate"
    /\ LET Updated(i) == i.fitness = << >>
           offspring ==
             [i \in 1 .. Len(ga_run.offspring) |->
                 IF Updated(ga_run.offspring[i])
                 THEN WithFitness(ga_run.lists, ga_run.offspring[i])
                 ELSE ga_run.offspring[i]]
       IN ga_run' =
            [ga_run EXCEPT
               !.pc = "store",
               !.evaluated =
                  updated_individuals(ga_run.offspring, Len(ga_run.offspring)),
               !.offspring = offspring,
               !.population = offspring]
    /\ UNCHANGED <<engine_vars, experiment>>

\* lines 101-110, 276-282: the population is stored; generate_statistics takes
\* min() of the fitness values, a ValueError when there are none
StoreGeneration ==
    /\ ga_run.pc = "store"
    /\ LET stored == [ga_run EXCEPT
                        !.generations = Append(@, StoredPopulation(ga_run.population))]
       IN ga_run' =
            IF Len(ga_run.population) = 0
            THEN [stored EXCEPT !.pc = "raised",
                                !.exception = "ValueError: min() arg is an empty sequence"]
            ELSE NextGeneration(stored, ga_run.generation + 1)
    /\ UNCHANGED <<engine_vars, experiment>>

----------------------------------------------------------------------------
(* experiments.run_comparison_experiment *)

\* lines 26-31
PROTOCOL_TITLES ==
    [SAP |-> "Single Action Potential", IP |-> "Irregular Pacing",
     VC |-> "Voltage Clamp"]

COMBINED_TITLE == "Combined Protocol"

\* a config: the type of its protocol, whether it has a secondary protocol,
\* and its hyperparameters as one value
ExperimentConfigs ==
    [protocol : {"SAP", "VC", "other"}, secondary_protocol : BOOLEAN,
     hyper : {1, 2}]

\* GeneticAlgorithmConfig.has_equal_hyperparameters
has_equal_hyperparameters(first_config, i) == first_config.hyper = i.hyper

\* lines 194-200; configs[0] of an empty list is an IndexError
Has_equal_hyperparameters(configs) ==
    IF Len(configs) = 0
    THEN [raised |-> "IndexError", value |-> FALSE]
    ELSE [raised |-> "none",
          value |-> \A k \in DOMAIN configs :
                       has_equal_hyperparameters(configs[1], configs[k])]

\* lines 205-210
protocol_list(configs) ==
    [k \in DOMAIN configs |->
        IF configs[k].secondary_protocol THEN "Combined Protocol"
        ELSE configs[k].protocol]

\* line 211: len(protocol_list) == len(set(protocol_list))
Has_unique_protocols(configs) ==
    Len(configs) = Cardinality({ protocol_list(configs)[k] : k \in DOMAIN configs })

\* lines 218-219: one run of the genetic algorithm with the config
run_experiment(config, number) == [config |-> config, number |-> number]

\* line 187: results[protocol_title].append(...) on a defaultdict(list)
Appended(results, protocol_title, ga_result) ==
    IF protocol_title \in DOMAIN results
    THEN [results EXCEPT ![protocol_title] = Append(@, ga_result)]
    ELSE [title \in DOMAIN results \cup {protocol_title} |->
             IF title = protocol_title THEN <<ga_result>> ELSE results[title]]

\* a function with no argument: an empty dict
EmptyDict == [title \in {} |-> << >>]

\* lines 174-181: the two checks, and the start of the loop over the configs
run_comparison_experiment(configs, iterations) ==
    /\ experiment.pc = "none"
    /\ LET equal == Has_equal_hyperparameters(configs)
           called == [experiment EXCEPT !.configs = configs,
                                        !.iterations = iterations,
                                        !.results = EmptyDict]
       IN experiment' =
            IF equal.raised # "none"
            THEN [called EXCEPT !.pc = "raised", !.exception = equal.raised]
            ELSE IF ~equal.value
            THEN [called EXCEPT
                    !.pc = "raised",
                    !.exception = "ValueError: Configs do not have the same hyper parameters."]
            ELSE IF ~Has_unique_protocols(configs)
            THEN [called EXCEPT
                    !.pc = "raised",
                    !.exception = "ValueError: Configs do not have unique protocols."]
            ELSE [called EXCEPT !.pc = "config", !.config = 1]
    /\ UNCHANGED <<engine_vars, ga_run>>

\* lines 181-184: the next config and its title; the type of a protocol that
\* is not in PROTOCOL_TITLES is a KeyError, whether or not there is a
\* secondary protocol
NextConfig ==
    /\ experiment.pc = "config"
    /\ LET config == experiment.configs[experiment.config]
       IN experiment' =
            IF experiment.config > Len(experiment.configs)
            THEN [experiment EXCEPT !.pc = "plot"]
            ELSE IF config.protocol \notin DOMAIN PROTOCOL_TITLES
            THEN [experiment EXCEPT !.pc = "raised", !.exception = "KeyError"]
            ELSE [experiment EXCEPT
                    !.pc = "iterations",
                    !.i = 0,
                    !.protocol_title =
                       IF config.secondary_protocol THEN COMBINED_TITLE
                       ELSE PROTOCOL_TITLES[config.protocol]]
    /\ UNCHANGED <<engine_vars, ga_run>>

\* lines 185-187: one iteration of the inner loop, or its end
RunIteration ==
    /\ experiment.pc = "iterations"
    /\ experiment' =
         IF experiment.i >= experiment.iterations
         THEN [experiment EXCEPT !.pc = "config", !.config = @ + 1]
         ELSE [experiment EXCEPT
                 !.i = @ + 1,
                 !.ran = @ + 1,
                 !.results =
                    Appended(@, experiment.protocol_title,
                             run_experiment(experiment.configs[experiment.config],
                                            experiment.ran + 1))]
    /\ UNCHANGED <<engine_vars, ga_run>>

\* lines 189-191, 90-123: generate_parameter_scaling_figure binds
\* tunable_params in its loop over the results (97) and reads it after the
\* loop (123), so with no results it raises (in the DataFrame of no examples,
\* 107-109, or UnboundLocalError at 123); with results the figures are drawn
PlotAndReturn ==
    /\ experiment.pc = "plot"
    /\ experiment' =
         IF DOMAIN experiment.results = {}
         THEN [experiment EXCEPT
                 !.pc = "raised",
                 !.exception = "raised in generate_parameter_scaling_figure"]
         ELSE [experiment EXCEPT !.pc = "returned"]
    /\ UNCHANGED <<engine_vars, ga_run>>

----------------------------------------------------------------------------
(* Specifications *)

\* a call of the method, which leaves the parameters of the instance alone
Method(A) == A /\ UNCHANGED <<default_parameters, ga, ga_run, experiment>>

\* the first call on a new instance
Call == runs = 0 /\ \E p \in ProtocolsAll : Method(generate_response(p, MaxEvals))
CallIP ==
    runs = 0 /\ \E p \in ProtocolsIP : Method(generate_response(p, MaxEvalsIP))
CallIPShort ==
    runs = 0 /\ \E p \in ProtocolsIPShort : Method(generate_response(p, MaxEvalsIP))
CallVC ==
    runs = 0 /\ \E p \in ProtocolsVC : Method(generate_response(p, MaxEvalsVC))

Times == 0 .. 4

Inputs == YStates \cup InitialStates(protocol)

EvalSAP == \E tt \in Times, y \in Inputs : single_action_potential(tt, y)
EvalIP == \E tt \in Times, y \in Inputs : irregular_pacing(tt, y)
EvalVC == \E tt \in Times, y \in Inputs : voltage_clamp(tt, y)

\* two instances whose runs are interleaved (multiprocessing, or two threads):
\* the scheduler lets the other instance go on
Switch ==
    /\ self' = 3 - self
    /\ parked' = Instance
    /\ Become(parked)
    /\ UNCHANGED <<PaciModel, ga, ga_run, experiment>>

ProtocolsTwo ==
    { SingleActionPotentialProtocol(1),
      VoltageClampProtocol(<<VoltageClampStep(1, 30)>>) }

CallTwo ==
    runs = 0 /\ \E p \in ProtocolsTwo : Method(generate_response(p, MaxEvalsTwo))

\* further calls on the same instance, with any protocol
ProtocolsRerun ==
    { SingleActionPotentialProtocol(1),
      IrregularPacingProtocol(1, <<0>>) }

CallAgain ==
    /\ runs < MaxRuns
    /\ \E p \in ProtocolsRerun : Method(generate_response(p, MaxEvalsRerun))

InputsRerun ==
    InitialStates(protocol) \cup {[v |-> 30, prof |-> 2, conc_ok |-> TRUE]}

EvalSAPAgain == \E tt \in Times, y \in InputsRerun : single_action_potential(tt, y)
EvalIPAgain == \E tt \in Times, y \in InputsRerun : irregular_pacing(tt, y)
EvalVCTwo == \E tt \in Times, y \in InputsRerun : voltage_clamp(tt, y)

\* the arguments of generate_trace: none (the baseline), the ten names and
\* values of test_update_parameters, and two names the RHS reads
TunableParametersTest ==
    << "G_Na", "G_F", "G_Ks", "G_Kr", "G_K1", "G_bNa", "G_NaL", "G_CaL", "G_pCa",
       "G_bCa" >>

ParamsTest == << 7, 7, 7, 7, 7, 7, 7, 700000, 7, 7 >>

TraceArguments ==
    { [tunable_parameters |-> << >>, params |-> << >>],
      [tunable_parameters |-> TunableParametersTest, params |-> ParamsTest],
      [tunable_parameters |-> << "g_b_na", "g_na" >>, params |-> << 7, 7 >>] }

CallTrace ==
    /\ UNCHANGED ga
    /\ \E a \in TraceArguments :
          generate_trace(SingleActionPotentialProtocol(2), a.tunable_parameters,
                         a.params, MaxEvals)

Next ==
    \/ Call
    \/ EvalSAP
    \/ EvalIP
    \/ EvalVC
    \/ SolverAccept
    \/ SolverRaises
    \/ SolverReturnsFailure
    \/ SolverReturnsSuccess

\* Irregular-Pacing runs in which the integrator itself does not fail (Next
\* has its failures, for all three protocols)
NextIP ==
    \/ CallIP
    \/ EvalIP
    \/ SolverAccept
    \/ SolverReturnsSuccess

\* the same with an offset sequence short enough to be exhausted
NextIPShort ==
    \/ CallIPShort
    \/ EvalIP
    \/ SolverAccept
    \/ SolverReturnsSuccess

NextVC ==
    \/ CallVC
    \/ EvalVC
    \/ SolverAccept
    \/ SolverRaises
    \/ SolverReturnsFailure
    \/ SolverReturnsSuccess

\* one instance on which generate_response is called more than once
NextRerun ==
    \/ CallAgain
    \/ EvalSAPAgain
    \/ EvalIPAgain
    \/ SolverAccept
    \/ SolverRaises
    \/ SolverReturnsFailure
    \/ SolverReturnsSuccess

\* one run of an instance made by generate_trace
NextParams ==
    \/ CallTrace
    \/ EvalSAP
    \/ SolverAccept
    \/ SolverReturnsSuccess

\* two instances, one run each, their evaluations in any order
NextTwo ==
    \/ CallTwo
    \/ EvalSAPAgain
    \/ EvalVCTwo
    \/ SolverAccept
    \/ SolverReturnsSuccess
    \/ Switch

\* an object that is none of the three protocol classes
OtherProtocol == [kind |-> "other", duration |-> 1, offsets |-> <<>>, steps |-> <<>>]

Configs ==
    [protocol : { SingleActionPotentialProtocol(1),
                  VoltageClampProtocol(<<VoltageClampStep(1, 30)>>),
                  OtherProtocol },
     secondary_protocol : { NoProtocol, IrregularPacingProtocol(1, <<0>>),
                            OtherProtocol },
     tunable_parameters : { << "g_na" >> }]

Construct == \E config \in Configs : ParameterTuningGeneticAlgorithm(config)
Evaluate == \E new_parameters \in { << 7 >> } : evaluate_performance(new_parameters)

\* the harness: construction, then the evaluation of one individual
NextGA ==
    \/ Construct
    \/ StoreBaseline
    \/ CallSecondaryBaseline
    \/ StoreSecondaryBaseline
    \/ Evaluate
    \/ StorePrimary
    \/ CallSecondary
    \/ StoreSecondary
    \/ EvalSAPAgain
    \/ EvalIPAgain
    \/ EvalVCTwo
    \/ SolverAccept
    \/ SolverRaises
    \/ SolverReturnsSuccess

\* runs of the three protocols, and calls with an object of no protocol
\* class, on one instance, one after another, with evaluations that complete
\* and evaluations that raise
ProtocolsHistory ==
    { SingleActionPotentialProtocol(1),
      IrregularPacingProtocol(1, <<0>>),
      VoltageClampProtocol(<<VoltageClampStep(1, 30)>>),
      OtherProtocol }

CallHistory ==
    /\ runs < MaxRuns
    /\ \E p \in ProtocolsHistory : Method(generate_response(p, MaxEvalsHistory))

InputsHistory == InputsRerun \cup {[v |-> 30, prof |-> 1, conc_ok |-> FALSE]}

EvalSAPHistory == \E tt \in Times, y \in InputsHistory : single_action_potential(tt, y)
EvalIPHistory == \E tt \in Times, y \in InputsHistory : irregular_pacing(tt, y)
EvalVCHistory == \E tt \in Times, y \in InputsHistory : voltage_clamp(tt, y)

NextHistory ==
    \/ CallHistory
    \/ EvalSAPHistory
    \/ EvalIPHistory
    \/ EvalVCHistory
    \/ SolverAccept
    \/ SolverReturnsSuccess

\* one run of the genetic algorithm with any of the configs
CallRun == \E config \in RunConfigs : run(config)

NextRun ==
    \/ CallRun
    \/ Select
    \/ Mate
    \/ Mutate
    \/ Reevaluate
    \/ StoreGeneration

\* the lists of at most n configs
RECURSIVE ConfigLists(_)
ConfigLists(n) ==
    IF n = 0 THEN { << >> }
    ELSE ConfigLists(n - 1) \cup
         { Append(l, c) : l \in { x \in ConfigLists(n - 1) : Len(x) = n - 1 },
                          c \in ExperimentConfigs }

CallComparison ==
    \E configs \in ConfigLists(MaxConfigs), iterations \in 0 .. MaxIterations :
        run_comparison_experiment(configs, iterations)

NextComparison ==
    \/ CallComparison
    \/ NextConfig
    \/ RunIteration
    \/ PlotAndReturn

Spec == Init /\ [][Next]_vars
SpecComparison == Init /\ [][NextComparison]_vars
SpecRun == Init /\ [][NextRun]_vars
SpecHistory == Init /\ [][NextHistory]_vars
SpecGA == Init /\ [][NextGA]_vars
SpecTwo == Init /\ [][NextTwo]_vars
SpecParams == Init /\ [][NextParams]_vars
SpecRerun == Init /\ [][NextRerun]_vars
SpecIP == Init /\ [][NextIP]_vars
SpecIPShort == Init /\ [][NextIPShort]_vars
SpecVC == Init /\ [][NextVC]_vars

----------------------------------------------------------------------------
(* Properties *)

NonDecreasing(s) == \A i \in 1 .. Len(s) : \A j \in i .. Len(s) : s[i] <= s[j]

Returned == pc = "returned"

\* C1: whenever the integrator reports a numerical failure, by raising or by
\* returning an unsuccessful result, generate_response returns None; a Trace is
\* returned only when the integration completed over the whole time span.
C1_FailureReturnsNone ==
    /\ (Returned /\ failure \in {"solver_raised", "solver_status"})
          => result.kind = "None"
    /\ (Returned /\ result.kind = "Trace")
          => (failure = "none" /\ t_accepted = TEnd(protocol))

\* C2: an integration failure, inside the integrator or inside the RHS, never
\* propagates an exception to the caller; the only outcome the caller observes
\* is an absent Trace.
C2_FailureObservedAsAbsentTrace ==
    (Returned /\ failure # "none")
        => (result.kind # "raised" /\ result.kind # "Trace" /\ result.kind = "None")

\* the part of C2 that the code keeps: no exception reaches the caller
NoExceptionPropagates == result.kind # "raised"

\* evaluations at which the recorded voltage derivative went from positive to
\* non-positive at a voltage above the baseline
SignChanges ==
    { k \in 2 .. Len(d_y_voltage) :
        /\ d_y_voltage[k - 1] > 0
        /\ d_y_voltage[k] <= 0
        /\ y_voltage[k] > AVG_AP_START_VOLTAGE }

Abs(x) == IF x < 0 THEN -x ELSE x

\* peak voltage minus 0.9 times |baseline - peak voltage|
TargetVoltage(peak) == peak - (9 * Abs(AVG_AP_START_VOLTAGE - peak)) \div 10

\* evaluations from k on at which the voltage is below the target of the peak at k
Crossings(k) ==
    { j \in k .. Len(d_y_voltage) : y_voltage[j] < TargetVoltage(y_voltage[k]) }

First(S) == CHOOSE j \in S : \A i \in S : j <= i

\* C3: in an Irregular-Pacing run with exactly one sign change of the voltage
\* derivative from positive to non-positive above the baseline, exactly one
\* peak time is recorded; the following downward crossing of the target
\* voltage records exactly one APD90 event and schedules exactly one
\* stimulation, at apd90_time + the first offset.
C3_OnePeakOneApd90OneStimulation ==
    (protocol.kind = "IP" /\ Cardinality(SignChanges) = 1) =>
        LET k == CHOOSE i \in SignChanges : TRUE
        IN /\ pacing_info.peaks = << t[k] >>
           /\ IF Crossings(k) = {}
              THEN /\ pacing_info.apd_90s = <<>>
                   /\ pacing_info.stimulations = <<>>
              ELSE /\ pacing_info.apd_90s = << t[First(Crossings(k))] >>
                   /\ pacing_info.stimulations =
                         << t[First(Crossings(k))] + protocol.offsets[1] >>

C3_Witness ==
    /\ protocol.kind = "IP"
    /\ Cardinality(SignChanges) = 1
    /\ Len(pacing_info.peaks) = 1
    /\ Len(pacing_info.apd_90s) = 1
    /\ Len(pacing_info.stimulations) = 1
    /\ Cardinality(Crossings(CHOOSE i \in SignChanges : TRUE)) >= 2

\* C4: once every offset has been consumed, a further APD90 detection raises
\* no error, does not fail the run and appends no scheduled stimulation; the
\* run goes on and, completed, still returns a Trace.
C4_ExhaustedOffsetsAreSilent ==
    /\ [][ ( /\ protocol.kind = "IP"
             /\ pc = "running"
             /\ offset_times = Len(protocol.offsets)
             /\ Len(pacing_info'.apd_90s) > Len(pacing_info.apd_90s) )
           => ( /\ pacing_info'.stimulations = pacing_info.stimulations
                /\ pc' = "running"
                /\ failure' = "none"
                /\ result' = Pending ) ]_vars
    /\ [](( /\ protocol.kind = "IP"
            /\ Returned
            /\ failure = "none" ) => result.kind = "Trace")

C4_Witness ==
    /\ protocol.kind = "IP"
    /\ Returned
    /\ result.kind = "Trace"
    /\ failure = "none"
    /\ Len(result.pacing_info.apd_90s) > Len(protocol.offsets)
    /\ Len(result.pacing_info.stimulations) = Len(protocol.offsets)

\* C5: the offsets are drawn from one generator per run, in order, each at most
\* once: for every k below the number of scheduled stimulations,
\* stimulations[k] = (time of the k-th APD90 detection) + (k-th offset).
C5_StimulationsFollowOffsets ==
    protocol.kind = "IP" =>
       /\ Len(pacing_info.stimulations) <= Len(protocol.offsets)
       /\ Len(pacing_info.stimulations) <= Len(pacing_info.apd_90s)
       /\ offset_times = Len(pacing_info.stimulations)
       /\ \A k \in 1 .. Len(pacing_info.stimulations) :
             pacing_info.stimulations[k] =
                 pacing_info.apd_90s[k] + protocol.offsets[k]

C5_Witness ==
    /\ protocol.kind = "IP"
    /\ Len(pacing_info.stimulations) = 2
    /\ protocol.offsets[1] # protocol.offsets[2]

\* the last evaluation of the forcing function ran to its return statement
EvaluationCompleted == Len(t) > 0 /\ Len(d_y_voltage) = Len(t)

StepStart(p, i) == IF i = 1 THEN 0 ELSE SumDurations(p.steps, i - 1)
StepEnd(p, i) == SumDurations(p.steps, i)

\* tt is inside the interval of step i: between its two boundaries, or at an
\* end of the time span, which is no boundary between two steps
InsideStep(p, i, tt) ==
    \/ StepStart(p, i) < tt /\ tt < StepEnd(p, i)
    \/ i = 1 /\ tt = 0
    \/ i = Len(p.steps) /\ tt = StepEnd(p, i)

\* C6: in a Voltage-Clamp run, for every evaluation at a time inside step i's
\* interval, the voltage slot of the state handed to the RHS, and the voltage
\* sample recorded for it, equal step i's target voltage, whatever voltage the
\* integrator passed in.
C6_ClampedVoltageIsStepVoltage ==
    protocol.kind = "VC" =>
        \A k \in 1 .. Len(t) : \A i \in 1 .. Len(protocol.steps) :
            InsideStep(protocol, i, t[k]) =>
                /\ y_voltage[k] = protocol.steps[i].voltage
                /\ full_y[k].v = protocol.steps[i].voltage

C6_Witness ==
    /\ protocol.kind = "VC"
    /\ EvaluationCompleted
    /\ StepStart(protocol, 2) < Last(t)
    /\ Last(t) < StepEnd(protocol, 2)
    /\ Last(y_voltage) = protocol.steps[2].voltage
    /\ y_in # Last(y_voltage)

WellFormedDerivative(d) ==
    /\ DOMAIN d.val = 0 .. 22
    /\ Cardinality(DOMAIN d.val) = 23
    /\ d.assigned = DOMAIN d.val
    /\ d.val[3] = 0

\* C7: every evaluation of the RHS, under every protocol driver, returns a
\* derivative vector of exactly 23 entries, each assigned during the
\* evaluation, with slot 3 exactly 0.
C7_DerivativeVectorShape ==
    EvaluationCompleted =>
        /\ WellFormedDerivative(rhs_d_y)
        /\ WellFormedDerivative(out_d_y)

C7_Witness ==
    /\ protocol.kind = "VC"
    /\ EvaluationCompleted
    /\ Len(t) = MaxEvals
    /\ rhs_d_y.val[0] # 0
    /\ rhs_d_y.val[3] = 0

\* the time of the last evaluation is in the window that starts at the most
\* recently scheduled stimulation
InStimulationWindow ==
    /\ Len(pacing_info.stimulations) > 0
    /\ Last(pacing_info.stimulations) <= Last(t)
    /\ Last(t) < Last(pacing_info.stimulations) + STIMULATION_DURATION

\* C8: the Irregular-Pacing forcing function returns the RHS derivative with
\* STIM_AMPLITUDE_AMPS / cm_farad added to the voltage derivative exactly when
\* t is in the stimulation window of the most recently scheduled stimulation;
\* otherwise the voltage derivative is the RHS value; slots 1..22 are never
\* altered.
C8_StimulusOnlyInsideWindow ==
    (protocol.kind = "IP" /\ EvaluationCompleted) =>
        /\ rhs_d_y.val[0] = Last(d_y_voltage)
        /\ out_d_y.val[0] =
              rhs_d_y.val[0]
                + (IF InStimulationWindow
                   THEN STIM_AMPLITUDE_AMPS \div cm_farad ELSE 0)
        /\ \A i \in 1 .. 22 : out_d_y.val[i] = rhs_d_y.val[i]
        /\ Len(pacing_info.stimulations) = 0 => out_d_y = rhs_d_y

C8_Witness ==
    /\ protocol.kind = "IP"
    /\ EvaluationCompleted
    /\ InStimulationWindow
    /\ out_d_y.val[0] = rhs_d_y.val[0] + STIM_AMPLITUDE_AMPS \div cm_farad
    /\ out_d_y.val[0] # rhs_d_y.val[0]

\* C9: although the integrator may re-evaluate the forcing function at times
\* earlier than or equal to ones already evaluated, the lists of peak times,
\* APD90 times and scheduled stimulations stay in non-decreasing time order,
\* and no time is recorded twice as a peak or as an APD90.
C9_DetectionsInTimeOrder ==
    protocol.kind = "IP" =>
        /\ NonDecreasing(pacing_info.peaks)
        /\ NonDecreasing(pacing_info.apd_90s)
        /\ NonDecreasing(pacing_info.stimulations)
        /\ \A i, j \in 1 .. Len(pacing_info.peaks) :
              i # j => pacing_info.peaks[i] # pacing_info.peaks[j]
        /\ \A i, j \in 1 .. Len(pacing_info.apd_90s) :
              i # j => pacing_info.apd_90s[i] # pacing_info.apd_90s[j]

\* the samples of the steps the integrator accepted
AcceptedTimes == [k \in 1 .. Len(sol) |-> t[sol[k]]]
AcceptedVoltages == [k \in 1 .. Len(sol) |-> y_voltage[sol[k]]]

\* C10: the Trace of a successful run holds the solver-accepted samples only:
\* its times are non-decreasing, with one voltage sample each, and the
\* evaluations the integrator made for probing are not part of it.
C10_TraceIsAcceptedSubsequence ==
    (Returned /\ failure = "none" /\ result.kind = "Trace") =>
        /\ Len(result.t) = Len(result.y)
        /\ NonDecreasing(result.t)
        /\ result.t = AcceptedTimes
        /\ result.y = AcceptedVoltages

\* C11: at the start of every generate_response call, whatever the protocol,
\* the time, voltage, voltage-derivative and full-state histories and the
\* current-snapshot recorder are reset: while a run is in progress they hold
\* the samples of this run only, and the recorder the RHS appends to is not
\* the one of a Trace returned by an earlier run.
C11_AccumulatorsResetAtCall ==
    pc = "running" =>
        /\ Len(t) = Len(fed)
        /\ Len(y_voltage) = Len(fed)
        /\ Len(full_y) = Len(fed)
        /\ Len(d_y_voltage) <= Len(fed)
        /\ Len(current_response_info.currents) <= Len(fed)
        /\ \A k \in DOMAIN returned_traces : ~returned_traces[k].shares

\* C12: every Trace the instance has returned is as it was at its return,
\* whatever calls were made on the instance afterwards.
C12_ReturnedTraceNeverMutated ==
    \A k \in DOMAIN returned_traces :
        returned_traces[k].now = returned_traces[k].at_return

\* the pacing state a new IrregularPacingInfo and a new offset generator are
\* in after the first n of the given evaluations
RECURSIVE PacingAfter(_, _, _)
PacingAfter(p, inputs, n) ==
    IF n = 0 THEN [pi |-> IrregularPacingInfo, n |-> 0]
    ELSE LET prev == PacingAfter(p, inputs, n - 1)
             th == [k \in 1 .. n |-> inputs[k][1]]
             dh == [k \in 1 .. n |-> VoltageDerivative(Currents(inputs[k][2]))]
             pi1 == PeakStep(prev.pi, inputs[n][1], inputs[n][2].v, th, dh)
         IN ApdStep(p, pi1, prev.n, inputs[n][1], inputs[n][2].v)

\* the Trace of a run on an instance that has never run before, when the
\* integrator evaluates the forcing function at the given <<t, y>> in turn
FreshRun(p, inputs) ==
    LET N == Len(inputs)
        states == [k \in 1 .. N |->
                     IF p.kind = "VC" THEN ClampedState(p, inputs[k][1], inputs[k][2])
                     ELSE inputs[k][2]]
    IN [kind |-> "Trace",
        t |-> [k \in 1 .. N |-> inputs[k][1]],
        y |-> [k \in 1 .. N |-> states[k].v],
        current_response_info |->
            IF p.kind = "IP" THEN NoCurrentResponseInfo
            ELSE [obj |-> TRUE,
                  currents |-> [k \in 1 .. N |-> current_timestep(states[k])]],
        pacing_info |->
            IF p.kind = "IP" THEN PacingAfter(p, inputs, N).pi
            ELSE IrregularPacingInfo]

\* C14: a run is determined by its protocol, the parameters and what the
\* integrator evaluates: the Trace a run returns is the Trace a new instance
\* returns for the same protocol and the same evaluations, whether the run was
\* the first of its instance or followed any other run on it.
C14_RerunEqualsFreshRun ==
    \A k \in DOMAIN returned_traces :
        returned_traces[k].at_return =
            FreshRun(returned_traces[k].protocol, returned_traces[k].fed)

C14_Witness ==
    /\ Len(returned_traces) = 2
    /\ returned_traces[1].protocol.kind = "IP"
    /\ returned_traces[2].protocol.kind = "SAP"
    /\ Len(returned_traces[1].at_return.t) = 2
    /\ Len(returned_traces[2].at_return.t) = 2
    /\ Len(returned_traces[2].at_return.current_response_info.currents) = 2
    /\ returned_traces[2].how = "none"

\* the conductance of the RHS that each parameter name of the test stands for
ChannelKey ==
    [G_Na |-> "g_na", G_F |-> "g_f_s", G_Ks |-> "g_ks_s", G_Kr |-> "g_kr_s",
     G_K1 |-> "g_k1_s", G_bNa |-> "g_b_na", G_NaL |-> "g_na_lmax",
     G_CaL |-> "g_ca_l", G_pCa |-> "g_p_ca", G_bCa |-> "g_b_ca"]

\* C15: generate_trace(protocol, tunable_parameters, params) makes the RHS use
\* params[i] as the maximal conductance of the channel tunable_parameters[i]
\* names; with the ten conductances named G_Na ... G_bCa and scaled by a
\* factor other than 1, the voltage derivative of the RHS differs from the one
\* of the baseline at the same state, so the voltage trace differs from the
\* baseline trace.
C15_ScaledConductancesChangeTheTrace ==
    \A nm \in DOMAIN ChannelKey :
        nm \in DOMAIN default_parameters =>
            /\ default_parameters[ChannelKey[nm]] = default_parameters[nm]
            /\ EvaluationCompleted =>
                  rhs_d_y.val[0] #
                      VoltageDerivative(CurrentsWith(DefaultParameters, Last(full_y)))

AsFreshRuns(rts) ==
    \A k \in DOMAIN rts : rts[k].at_return = FreshRun(rts[k].protocol, rts[k].fed)

\* C13: a step of one run leaves the class-level initial-condition vectors
\* and the attributes and history buffers of the other instance as they were,
\* so each of two interleaved runs returns the Trace it returns when it runs
\* alone.
C13_RunsShareNoMutableState ==
    /\ [][self' = self => parked' = parked]_vars
    /\ [](PaciModel = ClassAttributes)
    /\ [](AsFreshRuns(returned_traces) /\ AsFreshRuns(parked.returned_traces))

C13_Witness ==
    /\ pc = "returned"
    /\ protocol.kind = "VC"
    /\ result.kind = "Trace"
    /\ fed[1][2].v # y_voltage[1]
    /\ parked.pc = "running"
    /\ parked.protocol.kind = "VC"
    /\ Len(parked.t) = 1
    /\ Len(t) = 2

\* C16: an absent Trace never crashes the harness: an absent baseline or
\* secondary baseline trace raises nothing at construction, and an absent
\* primary or secondary candidate trace in _evaluate_performance becomes the
\* penalty of its protocol, the maximal error.
C16_AbsentTraceBecomesPenalty ==
    /\ ga.baseline_trace.kind = "None" => ga.pc # "raised"
    /\ ga.secondary_baseline_trace.kind = "None" => ga.pc # "raised"
    /\ ga.primary_trace.kind = "None" =>
          (ga.pc # "raised" /\ ga.error[1] = <<"primary", "max_error">>)
    /\ ga.secondary_trace.kind = "None" =>
          (ga.pc # "raised" /\ ga.error[2] = <<"secondary", "max_error">>)

\* the part of C16 that the code keeps: in _evaluate_performance an absent
\* candidate trace is the penalty of its protocol and nothing is raised
AbsentCandidateIsPenalty ==
    /\ ga.primary_trace.kind = "None" =>
          (ga.pc # "raised" /\ ga.error[1] = <<"primary", "max_error">>)
    /\ ga.secondary_trace.kind = "None" =>
          (ga.pc # "raised" /\ ga.error[2] = <<"secondary", "max_error">>)

\* the harness has the engine's answer for its primary / secondary protocol
PrimaryAnswered == ga.pc \notin {"none", "baseline"}
SecondaryAnswered ==
    ga.pc \notin {"none", "baseline", "call secondary baseline", "secondary baseline"}

\* C17: once the harness has the engine's answer for a protocol that is none
\* of the three recognized variants, it has raised ValueError 'Protocol not
\* recognized.'; it holds no maximal error, penalty or score for that protocol.
C17_UnrecognizedProtocolIsFatal ==
    /\ (PrimaryAnswered /\ ga.config.protocol.kind = "other") =>
          /\ ga.pc = "raised"
          /\ ga.exception = "ValueError: Protocol not recognized."
    /\ (SecondaryAnswered /\ ga.config.secondary_protocol.kind = "other") =>
          /\ ga.pc = "raised"
          /\ ga.exception = "ValueError: Protocol not recognized."
    /\ \A k \in DOMAIN ga.error :
          /\ ga.error[k][1] = "primary" => ga.config.protocol.kind # "other"
          /\ ga.error[k][1] = "secondary" => ga.config.secondary_protocol.kind # "other"

RECURSIVE SumValues(_, _)
SumValues(snapshot, n) ==
    IF n = 0 THEN 0 ELSE SumValues(snapshot, n - 1) + snapshot[n].value

ValueOf(snapshot, name) ==
    snapshot[CHOOSE k \in DOMAIN snapshot : snapshot[k].name = name].value

\* C18: in every RHS evaluation that records a CurrentSnapshot, the snapshot
\* holds exactly the 13 currents i_k1 ... i_b_ca, and the voltage derivative
\* recorded and returned is the negated sum of their values; the funny-sodium
\* component i_f_na is not one of them and enters only the derivative of
\* intracellular sodium (slot 17).
C18_VoltageDerivativeIsNegatedSnapshotSum ==
    (EvaluationCompleted /\ current_response_info.obj) =>
        LET snapshot == Last(current_response_info.currents)
            i_f_na == Currents(Last(full_y)).i_f_na
        IN /\ [k \in DOMAIN snapshot |-> snapshot[k].name] = CurrentNames
           /\ Len(CurrentNames) = 13
           /\ Last(d_y_voltage) = -SumValues(snapshot, 13)
           /\ rhs_d_y.val[0] = -SumValues(snapshot, 13)
           /\ rhs_d_y.val[17] =
                 -(ValueOf(snapshot, "i_na") + ValueOf(snapshot, "i_na_l")
                   + ValueOf(snapshot, "i_b_na") + 3 * ValueOf(snapshot, "i_na_k")
                   + 3 * ValueOf(snapshot, "i_na_ca") + i_f_na)

C18_Witness ==
    /\ EvaluationCompleted
    /\ protocol.kind = "SAP"
    /\ Len(current_response_info.currents) = 3
    /\ Currents(Last(full_y)).i_f_na # 0
    /\ rhs_d_y.val[0] = -SumValues(Last(current_response_info.currents), 13)
    /\ rhs_d_y.val[0] < 0

\* the span end and the initial vector the specification assigns to a protocol
SpecifiedSpanEnd(p) ==
    IF p.kind = "VC" THEN SumDurations(p.steps, Len(p.steps)) ELSE p.duration

SpecifiedInitialVector(p) == IF p.kind = "SAP" THEN y_initial_zero ELSE y_initial

\* C19: the integration of a Single-Action-Potential protocol starts at time
\* 0 from y_initial_zero and ends at its duration; Irregular-Pacing starts from
\* y_initial and ends at its duration; Voltage-Clamp starts from y_initial and
\* ends at the sum of its step durations; both vectors have 23 entries and 0
\* in slot 3.
C19_SpanAndInitialState ==
    /\ Len(y_initial) = 23 /\ y_initial[4] = 0
    /\ Len(y_initial_zero) = 23 /\ y_initial_zero[4] = 0
    /\ Len(fed) >= 1 =>
          /\ fed[1][1] = 0
          /\ fed[1][2].v = Millivolts(SpecifiedInitialVector(protocol)[1])
          /\ fed[1][2].conc_ok
    /\ \A k \in DOMAIN t : 0 <= t[k] /\ t[k] <= SpecifiedSpanEnd(protocol)
    /\ (Returned /\ failure = "none" /\ result.kind = "Trace") =>
          t_accepted = SpecifiedSpanEnd(protocol)

C19_Witness ==
    /\ protocol.kind = "VC"
    /\ Returned
    /\ failure = "none"
    /\ result.kind = "Trace"
    /\ t_accepted = 2
    /\ fed[1][2].v = -75
    /\ Len(fed) = 4

\* the state the last evaluation of the RHS was made at
EvaluatedState == Last(full_y)

\* a gate's steady state less its value, over its time constant
FirstOrderLaw(i, y) ==
    ((SteadyState(i, y) - StateBehind(y)[i + 1]) * 1000) \div TimeConstant(i, y)

\* the calcium gate fCa is held while the membrane is above -60 mV and the
\* gate is below its steady state
HeldCalciumGate(y) == y.v > -60 /\ SteadyState(7, y) > StateBehind(y)[8]

\* C20, as stated: for every gating variable and every state, the derivative
\* the RHS writes is (steady state - value) / time constant, with no further
\* factor or condition.
C20_UniformRelaxationLaw ==
    (Len(full_y) > 0 /\ rhs_d_y # NoVector) =>
        \A i \in GatingSlots : rhs_d_y.val[i] = FirstOrderLaw(i, EvaluatedState)

\* C20, amended: every gating variable but fCa follows the law in every
\* state; the derivative of fCa is 0 where the gate is held and follows the
\* law elsewhere.
C20_RelaxationLawButHeldCalciumGate ==
    (Len(full_y) > 0 /\ rhs_d_y # NoVector) =>
        /\ \A i \in GatingSlots \ {7} :
              rhs_d_y.val[i] = FirstOrderLaw(i, EvaluatedState)
        /\ rhs_d_y.val[7] = IF HeldCalciumGate(EvaluatedState) THEN 0
                            ELSE FirstOrderLaw(7, EvaluatedState)

C20_Witness ==
    /\ Len(full_y) > 0
    /\ rhs_d_y # NoVector
    /\ HeldCalciumGate(EvaluatedState)
    /\ FirstOrderLaw(7, EvaluatedState) # 0
    /\ rhs_d_y.val[7] = 0
    /\ rhs_d_y.val[5] = FirstOrderLaw(5, EvaluatedState)
    /\ rhs_d_y.val[5] # 0

\* the individuals recorded in ga_result.generations, by generation and place
Recorded(r) ==
    UNION { { <<g, i>> : i \in DOMAIN r.generations[g] } : g \in DOMAIN r.generations }

\* every recorded fitness is the error of the values now in the recorded list
RecordsFaithful ==
    \A gi \in Recorded(ga_run) :
        LET individual == ga_run.generations[gi[1]][gi[2]]
        IN individual.fitness = toolbox_evaluate(ga_run.lists[individual.parameters])

SeqRange(s) == { s[k] : k \in DOMAIN s }

\* C22: in ParameterTuningGeneticAlgorithm.run, exactly the offspring that
\* crossover or mutation touched are re-evaluated before the generation is
\* stored; every individual recorded in ga_result.generations carries the
\* fitness computed from the parameter values recorded with it, and no later
\* step changes a recorded individual or its values.
C22_RecordedFitnessMatchesRecordedParameters ==
    /\ [](RecordsFaithful)
    /\ [](ga_run.pc = "store" =>
            /\ SeqRange(ga_run.evaluated) = ga_run.touched
            /\ Len(ga_run.evaluated) = Cardinality(ga_run.touched)
            /\ \A i \in DOMAIN ga_run.population :
                  ga_run.population[i].fitness =
                     <<toolbox_evaluate(ga_run.lists[ga_run.population[i].params])>>)
    /\ [][\A gi \in Recorded(ga_run) :
            /\ gi \in Recorded(ga_run')
            /\ ga_run'.generations[gi[1]][gi[2]] = ga_run.generations[gi[1]][gi[2]]
            /\ ga_run'.lists[ga_run.generations[gi[1]][gi[2]].parameters] =
                  ga_run.lists[ga_run.generations[gi[1]][gi[2]].parameters]]_vars

C22_Witness ==
    /\ ga_run.pc = "returned"
    /\ ga_run.config = [population_size |-> 2, max_generations |-> 2]
    /\ Len(ga_run.generations) = 2
    /\ ga_run.touched = {1}
    /\ ga_run.evaluated = <<1>>
    /\ ga_run.lists[ga_run.generations[1][1].parameters] = <<1>>
    /\ ga_run.lists[ga_run.generations[1][2].parameters] = <<1>>
    /\ ga_run.lists[ga_run.generations[2][1].parameters] = <<2>>
    /\ ga_run.generations[2][1].fitness = toolbox_evaluate(<<2>>)
    /\ ga_run.generations[2][2].fitness = ga_run.generations[1][1].fitness

\* C23: ParameterTuningGeneticAlgorithm.run returns, for every config, a
\* result whose generations list has exactly config.max_generations entries of
\* exactly config.population_size individuals each, so that the generation
\* indices 0..max_generations-1 and the individual indices
\* 0..population_size-1 address existing entries.
C23_GenerationsMatchConfig ==
    /\ ga_run.pc # "raised"
    /\ ga_run.pc = "returned" =>
          /\ Len(ga_run.generations) = ga_run.config.max_generations
          /\ \A g \in DOMAIN ga_run.generations :
                Len(ga_run.generations[g]) = ga_run.config.population_size

\* what holds of the code: a config of at least one generation and at least
\* one individual gets its generations and individuals
GenerationsMatchSensibleConfig ==
    (ga_run.config.max_generations >= 1 /\ ga_run.config.population_size >= 1) =>
        /\ ga_run.pc # "raised"
        /\ ga_run.pc = "returned" =>
              /\ Len(ga_run.generations) = ga_run.config.max_generations
              /\ \A g \in DOMAIN ga_run.generations :
                    Len(ga_run.generations[g]) = ga_run.config.population_size

\* the title a config is filed under; a protocol of no known type has none
\* and stands for itself
TitleOf(config) ==
    IF config.secondary_protocol THEN COMBINED_TITLE
    ELSE IF config.protocol \in DOMAIN PROTOCOL_TITLES
         THEN PROTOCOL_TITLES[config.protocol]
         ELSE config.protocol

HyperparametersDiffer(configs) ==
    \E j, k \in DOMAIN configs : configs[j].hyper # configs[k].hyper

TitleTwice(configs) ==
    \E j, k \in DOMAIN configs : j # k /\ TitleOf(configs[j]) = TitleOf(configs[k])

\* results[title] of a defaultdict(list)
ResultsUnder(results, title) ==
    IF title \in DOMAIN results THEN results[title] ELSE << >>

RaisedValueErrorBeforeRunning(e) ==
    /\ e.pc = "raised"
    /\ e.exception \in
          { "ValueError: Configs do not have the same hyper parameters.",
            "ValueError: Configs do not have unique protocols." }
    /\ e.ran = 0

RanAllAndReturned(e) ==
    /\ e.pc = "returned"
    /\ e.ran = e.iterations * Len(e.configs)
    /\ \A k \in DOMAIN e.configs :
          LET under == ResultsUnder(e.results, TitleOf(e.configs[k]))
          IN /\ Len(under) = e.iterations
             /\ \A n \in DOMAIN under : under[n].config = e.configs[k]

\* C24: run_comparison_experiment raises ValueError before any GA iteration
\* when the configs differ in their hyperparameters or two of them have the
\* same protocol title; otherwise it runs `iterations` experiments for each
\* config and returns them under the config's title, `iterations` results
\* per title.
C24_ComparisonRaisesOrRunsAll ==
    experiment.pc \in {"raised", "returned"} =>
        IF HyperparametersDiffer(experiment.configs) \/ TitleTwice(experiment.configs)
        THEN RaisedValueErrorBeforeRunning(experiment)
        ELSE RanAllAndReturned(experiment)

\* what holds of the code: the same, for a list of at least one config, all
\* protocols of the three known types, and at least one iteration
ComparisonOfKnownProtocols ==
    (/\ experiment.pc \in {"raised", "returned"}
     /\ Len(experiment.configs) >= 1
     /\ experiment.iterations >= 1
     /\ \A k \in DOMAIN experiment.configs :
           experiment.configs[k].protocol \in DOMAIN PROTOCOL_TITLES) =>
        IF HyperparametersDiffer(experiment.configs) \/ TitleTwice(experiment.configs)
        THEN RaisedValueErrorBeforeRunning(experiment)
        ELSE RanAllAndReturned(experiment)

\* a snapshot holds the 13 currents under their names, in the order of
\* CurrentNames
WellFormedSnapshot(snapshot) ==
    /\ Len(snapshot) = 13
    /\ \A n \in 1 .. 13 : snapshot[n].name = CurrentNames[n]

\* C25: after every completed RHS evaluation of a run the time, voltage,
\* voltage-derivative and full-state histories have one entry per evaluation
\* made since the run started; in Single-Action-Potential and Voltage-Clamp
\* runs so has the list of current snapshots, each of 13 named currents in
\* the fixed order, and snapshot i of a returned Trace belongs to sample i.
C25_HistoriesGrowTogether ==
    (pc \in {"running", "returned"} /\ failure # "rhs_raised") =>
        /\ Len(t) = Len(fed)
        /\ Len(y_voltage) = Len(t)
        /\ Len(d_y_voltage) = Len(t)
        /\ Len(full_y) = Len(t)
        /\ \A k \in DOMAIN t :
              /\ t[k] = fed[k][1]
              /\ y_voltage[k] = full_y[k].v
        /\ protocol.kind \in {"SAP", "VC"} =>
              /\ Len(current_response_info.currents) = Len(t)
              /\ \A k \in DOMAIN t :
                    /\ WellFormedSnapshot(current_response_info.currents[k])
                    /\ current_response_info.currents[k] = current_timestep(full_y[k])
              /\ result.kind = "Trace" =>
                    /\ Len(result.t) = Len(result.y)
                    /\ Len(result.current_response_info.currents) = Len(result.t)
                    /\ \A k \in DOMAIN result.t :
                          /\ result.t[k] = fed[k][1]
                          /\ result.current_response_info.currents[k] =
                                current_timestep(full_y[k])

C25_Witness ==
    /\ runs = 2
    /\ Len(returned_traces) = 2
    /\ returned_traces[1].protocol.kind = "SAP"
    /\ Len(returned_traces[1].at_return.t) = 2
    /\ protocol.kind = "VC"
    /\ result.kind = "Trace"
    /\ Len(result.t) = 2
    /\ Len(result.current_response_info.currents) = 2
    /\ full_y[1].v = 30
    /\ fed[1][2].v # 30

\* the stimulus the driver added in the last evaluation
AddedStimulus == out_d_y.val[0] - Last(d_y_voltage)

\* C26: in an Irregular-Pacing run every entry of the voltage-derivative
\* history is the RHS value of the state recorded with it (the negated sum of
\* the currents), never that value plus the stimulus; the derivative handed to
\* the integrator exceeds the entry recorded in the same evaluation by
\* STIM_AMPLITUDE_AMPS / cm_farad inside a stimulation window and equals it
\* outside.
C26_HistoryHoldsNoStimulus ==
    (protocol.kind = "IP" /\ EvaluationCompleted) =>
        /\ \A k \in 1 .. Len(d_y_voltage) :
              d_y_voltage[k] = VoltageDerivative(Currents(full_y[k]))
        /\ stimulated => AddedStimulus = STIM_AMPLITUDE_AMPS \div cm_farad
        /\ ~stimulated => AddedStimulus = 0

C26_Witness ==
    /\ protocol.kind = "IP"
    /\ EvaluationCompleted
    /\ Len(d_y_voltage) >= 3
    /\ stimulated
    /\ AddedStimulus # 0
    /\ \E k \in 1 .. Len(d_y_voltage) - 1 :
          /\ pacing_info.stimulations[1] <= t[k]
          /\ t[k] < pacing_info.stimulations[1] + STIMULATION_DURATION

\* what the evaluation that has just completed did to the pacing record
PeakInStep == Len(pacing_info'.peaks) = Len(pacing_info.peaks) + 1
ApdInStep == Len(pacing_info'.apd_90s) = Len(pacing_info.apd_90s) + 1
ScheduledInStep ==
    Len(pacing_info'.stimulations) = Len(pacing_info.stimulations) + 1

\* the 90%-repolarization target of a peak at voltage y0
TargetOfPeak(y0) == y0 - ((y0 - AVG_AP_START_VOLTAGE) * 9) \div 10

\* C27: one evaluation of the Irregular-Pacing forcing function runs the RHS,
\* then peak detection, then APD90 detection and scheduling, then the
\* stimulation decision: peak detection reads the derivative the RHS has just
\* recorded; APD90 detection tests the target that a peak of the same
\* evaluation has just set; and the stimulation decision sees a stimulation
\* scheduled in the same evaluation, so one scheduled at the evaluation's own
\* time (offset 0) is applied in that evaluation.
C27_StepsInFixedOrder ==
    [][ (protocol.kind = "IP" /\ Len(d_y_voltage') = Len(d_y_voltage) + 1) =>
          LET tt == Last(t')
              y0 == Last(y_voltage')
              n  == Len(d_y_voltage')
          IN /\ PeakInStep <=> /\ n >= 2
                                /\ d_y_voltage'[n - 1] > 0
                                /\ d_y_voltage'[n] <= 0
                                /\ y0 > AVG_AP_START_VOLTAGE
             /\ PeakInStep =>
                   /\ Last(pacing_info'.peaks) = tt
                   /\ pacing_info'.apd_90_end_voltage = TargetOfPeak(y0)
                   /\ ApdInStep <=> y0 < TargetOfPeak(y0)
             /\ ~PeakInStep =>
                   (ApdInStep <=> /\ pacing_info.pending
                                  /\ y0 < pacing_info.apd_90_end_voltage)
             /\ ScheduledInStep => ApdInStep
             /\ stimulated' <=>
                   /\ Len(pacing_info'.stimulations) > 0
                   /\ Last(pacing_info'.stimulations) <= tt
                   /\ tt < Last(pacing_info'.stimulations) + STIMULATION_DURATION
             /\ (ScheduledInStep /\ Last(pacing_info'.stimulations) = tt) =>
                   /\ stimulated'
                   /\ out_d_y'.val[0] =
                         rhs_d_y'.val[0] + STIM_AMPLITUDE_AMPS \div cm_farad
      ]_vars

\* the fifth evaluation recorded the second APD90 and scheduled, with offset
\* 0, a stimulation at its own time, which it applied
C27_Witness ==
    /\ protocol.kind = "IP"
    /\ EvaluationCompleted
    /\ Len(t) = 5
    /\ Len(pacing_info.apd_90s) = 2
    /\ protocol.offsets[2] = 0
    /\ Last(pacing_info.stimulations) = Last(t)
    /\ stimulated
    /\ out_d_y.val[0] = Last(d_y_voltage) + STIM_AMPLITUDE_AMPS \div cm_farad

\* an evaluation that detected no peak and found the voltage below the pending
\* target recorded the APD90
CrossingRecorded ==
    ( /\ protocol.kind = "IP"
      /\ Len(d_y_voltage') = Len(d_y_voltage) + 1
      /\ ~PeakInStep
      /\ pacing_info.pending
      /\ Last(y_voltage') < pacing_info.apd_90_end_voltage )
        => /\ pacing_info'.apd_90s = Append(pacing_info.apd_90s, Last(t'))
           /\ Len(pacing_info'.stimulations) =
                 Min(Len(pacing_info'.apd_90s), Len(protocol.offsets))

\* C28: in an Irregular-Pacing run the APD90 time is recorded before the next
\* offset is drawn: a downward crossing of a pending target is recorded also
\* when no offset is left, and in every state of the run the number of
\* scheduled stimulations is the minimum of the number of recorded APD90
\* events and the length of the offset sequence.
C28_StimulationsAreMinOfApd90sAndOffsets ==
    /\ [](protocol.kind = "IP" =>
            Len(pacing_info.stimulations) =
                Min(Len(pacing_info.apd_90s), Len(protocol.offsets)))
    /\ [][CrossingRecorded]_vars

\* the run is still going on, a second APD90 has been recorded and the only
\* offset was used by the first
C28_Witness ==
    /\ protocol.kind = "IP"
    /\ pc = "running"
    /\ Len(protocol.offsets) = 1
    /\ Len(pacing_info.apd_90s) = 2
    /\ Len(pacing_info.stimulations) = 1
    /\ offset_times = 1

\* C29: generate_response called with an object of none of the three
\* protocol classes resets the four history buffers, makes no RHS evaluation
\* and no integration step, raises nothing and returns None, the same value
\* it returns when an integration ends in a ValueError.
C29_UnrecognizedProtocolReturnsNone ==
    /\ (pc # "idle" /\ protocol.kind \notin {"SAP", "IP", "VC"}) =>
          /\ Returned
          /\ result = ReturnNone
          /\ failure = "none"
          /\ t = <<>> /\ y_voltage = <<>> /\ d_y_voltage = <<>> /\ full_y = <<>>
          /\ fed = <<>> /\ sol = <<>> /\ t_accepted = 0
    /\ (Returned /\ failure = "rhs_raised") => result = ReturnNone

\* the call with the unrecognized object follows a run that made evaluations:
\* the buffers are empty, the recorder of that run is still bound
C29_Witness ==
    /\ runs = 2
    /\ protocol = OtherProtocol
    /\ Returned
    /\ result = ReturnNone
    /\ t = <<>>
    /\ Len(current_response_info.currents) > 0

\* the vector the integrator passed to evaluation k, and the same vector
\* after the evaluation: full_y holds the vector itself, not a copy
ReceivedVector(k) == fed[k][2]
VectorAfterwards(k) == full_y[k]

\* C30: the Voltage-Clamp forcing function writes the clamp voltage into slot
\* 0 of the vector it is given and leaves every other slot of that vector as
\* received; what it returns is the RHS derivative of the vector so modified,
\* all 23 slots as the RHS assigned them, the voltage derivative (the negated
\* sum of the currents at the clamp voltage) included.
C30_ClampWritesOnlyVoltageSlot ==
    protocol.kind = "VC" =>
        /\ Len(full_y) = Len(fed)
        /\ \A k \in 1 .. Len(fed) :
              /\ VectorAfterwards(k).v = get_voltage_at_time(protocol, fed[k][1])
              /\ VectorAfterwards(k).prof = ReceivedVector(k).prof
              /\ VectorAfterwards(k).conc_ok = ReceivedVector(k).conc_ok
        /\ (EvaluationCompleted /\ failure # "rhs_raised") =>
              /\ out_d_y = DerivativeVector(Last(full_y))
              /\ out_d_y = rhs_d_y
              /\ out_d_y.val[0] = VoltageDerivative(Currents(Last(full_y)))
              /\ out_d_y.val[0] = Last(d_y_voltage)

\* the integrator passed a voltage other than the clamp voltage and slots
\* other than the initial ones; the voltage derivative returned is not 0
C30_Witness ==
    /\ protocol.kind = "VC"
    /\ EvaluationCompleted
    /\ Len(t) >= 2
    /\ ReceivedVector(Len(fed)).v # VectorAfterwards(Len(fed)).v
    /\ ReceivedVector(Len(fed)).prof = 2
    /\ VectorAfterwards(Len(fed)).prof = 2
    /\ out_d_y.val[0] # 0

====
